---- MODULE Spec2Model ----
(***************************************************************************)
(* devday: per-day extraction of coding-assistant sessions.                *)
(*                                                                         *)
(* Part 1 models the digest truncator (parsers/digest.ts).                 *)
(* Part 2 models CodexParser.parseSessionFile and                          *)
(* CopilotParser.parseSessionFile as line-by-line state machines.          *)
(*                                                                         *)
(* Strings are sequences of one-character strings, so that slicing,        *)
(* trimming and substring search are computed, not assumed.                *)
(***************************************************************************)
EXTENDS Integers, Sequences, FiniteSets, TLC

VARIABLES
    \* ---- digest truncator (SpecDigest)
    digestParts,     \* the message fragments the digest is joined from
    digest,          \* digestParts.join('\n\n')
    maxChars,        \* the character budget handed to truncateConversationDigest
    truncated,       \* truncateConversationDigest(digest, maxChars)
    retruncated,     \* truncateConversationDigest(truncated, maxChars)
    detected,        \* isDigestTruncated(truncated)
    dpc,             \* "input" | "truncated" | "again" | "detected" ("idle" outside SpecDigest)
    \* ---- one getSessions call over one log unit (SpecParse)
    parser,          \* "codex" | "copilot": the class whose parseSessionFile runs
    corpus,          \* the family of log lines the unit is written from
    lines,           \* the parsed lines of the unit read so far, in file order
    acc,             \* the locals of parseSessionFile (named as in the code)
    pc,              \* "reading" | "done" | "threw" ("idle" outside SpecParse)
    session,         \* what parseSessionFile returned: null or the Session
    sessions,        \* what getSessions returned
    \* ---- splitDigestIntoChunks on its own (SpecSplit)
    split,           \* its arguments, the fragments the digest was joined from, its result
    \* ---- buildSessionSummaries over one recap (SpecSummarize, FairSummarize)
    config,          \* the DevDayConfig: preferredSummarizer and the two API keys
    options,         \* the options: summarizeWithLlm and chunkChars
    recap,           \* the sessions of the recap's project, as the extractors returned them
    contexts,        \* collectSessionContexts(recap): the sessions in the order of the loop
    run,             \* where the loop and summarizeSessionWithLlm stand, with their locals
    call,            \* the callSummarizer call being awaited: its phase, age, provider, prompt
    callLog,         \* every callSummarizer call that has returned, in order, with its result
    summaries,       \* the Map buildSessionSummaries fills: session id -> summary
    \* ---- isAvailable and getSessions over a root with several units (SpecUnits)
    fs,              \* the file system: whether the root exists and can be listed, its units
    scan,            \* the parser, what isAvailable returned, and where getSessions stands
    \* ---- sumTokens over a list of usages (SpecSum)
    tally,           \* the operands of sumTokens and what it returned
    \* ---- the session collection of the devday command (SpecCollect)
    collect          \* the config, the parsers, where the loop stands, its calls, allSessions

digestVars == <<digestParts, digest, maxChars, truncated, retruncated, detected, dpc>>
parseVars == <<parser, corpus, lines, acc, pc, session, sessions>>

summaryVars == <<config, options, recap, contexts, run, call, callLog, summaries>>
unitVars == <<fs, scan>>
cliVars == <<tally, collect>>
pipelineVars == <<split, summaryVars, unitVars, cliVars>>

vars == <<digestVars, parseVars, pipelineVars>>

----------------------------------------------------------------------------
(* Bounds of the model *)

\* most fragments joined into one digest
MaxParts == 2
\* most operands handed to sumTokens
MaxOperands == 3
\* most sessions one parser finds for the day
MaxFound == 1
\* largest character budget tried (budgets run from -1 to MaxBudget)
MaxBudget == 60
\* most lines in one log unit
MaxLines == 3
\* most fragments in a digest handed to splitDigestIntoChunks
MaxEntries == 4
\* most steps of the clock one summarizer call is followed for
MaxTicks == 3
\* most units under one root
MaxUnits == 2

----------------------------------------------------------------------------
(* String helpers: JavaScript string operations on sequences of characters *)

Min(a, b) == IF a <= b THEN a ELSE b
Max(a, b) == IF a >= b THEN a ELSE b

\* the characters String.prototype.trim* removes, as far as the model uses them
Whitespace == {" ", "\n", "\t", "\r"}

\* s.slice(start): a negative start counts from the end; -0 is 0
SliceFrom(s, start) ==
    LET from == IF start < 0 THEN Max(Len(s) + start, 0) ELSE Min(start, Len(s))
    IN  SubSeq(s, from + 1, Len(s))

\* s.slice(0, end) for end >= 0
SliceTo(s, end) == SubSeq(s, 1, Min(end, Len(s)))

RECURSIVE trimEnd(_)
trimEnd(s) ==
    IF s = <<>> THEN <<>>
    ELSE IF s[Len(s)] \in Whitespace THEN trimEnd(SubSeq(s, 1, Len(s) - 1))
    ELSE s

RECURSIVE trimStart(_)
trimStart(s) ==
    IF s = <<>> THEN <<>>
    ELSE IF s[1] \in Whitespace THEN trimStart(Tail(s))
    ELSE s

\* s.includes(sub)
includes(s, sub) ==
    \E i \in 0..(Len(s) - Len(sub)) : SubSeq(s, i + 1, i + Len(sub)) = sub

\* parts.join(sep)
RECURSIVE join(_, _)
join(parts, sep) ==
    IF parts = <<>> THEN <<>>
    ELSE IF Len(parts) = 1 THEN parts[1]
    ELSE parts[1] \o sep \o join(Tail(parts), sep)

\* 'x'.repeat(n)
RECURSIVE repeat(_, _)
repeat(c, n) == IF n <= 0 THEN <<>> ELSE <<c>> \o repeat(c, n - 1)

----------------------------------------------------------------------------
(* parsers/digest.ts *)

\* '\n\n[...truncated middle section...]\n\n'
DIGEST_TRUNCATION_MARKER ==
    <<"\n", "\n", "[", ".", ".", ".",
      "t", "r", "u", "n", "c", "a", "t", "e", "d", " ",
      "m", "i", "d", "d", "l", "e", " ",
      "s", "e", "c", "t", "i", "o", "n",
      ".", ".", ".", "]", "\n", "\n">>

DEFAULT_DIGEST_MAX_CHARS == 8000
DEFAULT_MESSAGE_MAX_CHARS == 500

\* Math.floor(budget * 0.55); the product is an integer multiple of 1/20
headCharsOf(budget) == (budget * 55) \div 100

\* variant: the fit test is strict, so a digest of exactly max characters is cut
truncateConversationDigest_StrictFit(d, max) ==
    IF max <= 0 THEN d
    ELSE IF Len(d) < max THEN d
    ELSE
        LET budget == Max(0, max - Len(DIGEST_TRUNCATION_MARKER))
            headChars == headCharsOf(budget)
            tailChars == budget - headChars
        IN  trimEnd(SliceTo(d, headChars)) \o DIGEST_TRUNCATION_MARKER
              \o trimStart(SliceFrom(d, 0 - tailChars))

\* variant: head and tail are emitted in the wrong order
truncateConversationDigest_TailFirst(d, max) ==
    IF max <= 0 THEN d
    ELSE IF Len(d) <= max THEN d
    ELSE
        LET budget == Max(0, max - Len(DIGEST_TRUNCATION_MARKER))
            headChars == headCharsOf(budget)
            tailChars == budget - headChars
        IN  trimStart(SliceFrom(d, 0 - tailChars)) \o DIGEST_TRUNCATION_MARKER
              \o trimEnd(SliceTo(d, headChars))

truncateConversationDigest(d, max) ==
    IF max <= 0 THEN d
    ELSE IF Len(d) <= max THEN d
    ELSE
        LET markerLength == Len(DIGEST_TRUNCATION_MARKER)
            budget == Max(0, max - markerLength)
            headChars == headCharsOf(budget)
            tailChars == budget - headChars
            head == trimEnd(SliceTo(d, headChars))
            tail == trimStart(SliceFrom(d, 0 - tailChars))
        IN  head \o DIGEST_TRUNCATION_MARKER \o tail

truncateDigestMessageText(text, max) ==
    IF max <= 0 THEN text
    ELSE IF Len(text) <= max THEN text
    ELSE SliceTo(text, max) \o <<".", ".", ".">>

isDigestTruncated(text) == includes(text, DIGEST_TRUNCATION_MARKER)

----------------------------------------------------------------------------
(* Message fragments, as the extractors build them *)

UserTag == <<"[", "U", "s", "e", "r", "]", ":", " ">>
AssistantTag == <<"[", "A", "s", "s", "i", "s", "t", "a", "n", "t", "]", ":", " ">>
BlankLine == <<"\n", "\n">>

\* CodexParser.truncateText / CopilotParser.truncateText (maxLen = 500)
truncateText(text) ==
    IF Len(text) <= DEFAULT_MESSAGE_MAX_CHARS THEN text
    ELSE SliceTo(text, DEFAULT_MESSAGE_MAX_CHARS) \o <<".", ".", ".">>

UserFragment(text) == UserTag \o truncateText(text)
AssistantFragment(text) == AssistantTag \o truncateText(text)

\* message texts of the digests
Text ==
    [ hi |-> <<"h", "i">>,
      ok |-> <<"o", "k">>,
      filler |-> repeat("x", 20),
      spaced |-> <<"a", " ", "\n", " ", "b">>,
      \* a message that quotes an earlier truncated digest
      quotesMarker |-> <<"a">> \o DIGEST_TRUNCATION_MARKER \o <<"b">>,
      \* a message ending in the marker's visible part; the join supplies the blank line
      endsLikeMarker |-> <<"c">> \o SubSeq(DIGEST_TRUNCATION_MARKER, 1, 34),
      \* a message as typed, with its line end (a Codex user_message event is not trimmed)
      withLineEnd |-> <<"g", "o", "\n">>,
      \* an assistant message that quotes a transcript line
      quotesTranscript |-> <<"s", "e", "e">> \o BlankLine \o UserTag \o <<"y">>,
      \* injected envelopes: the environment block, the AGENTS.md preamble
      envelope |-> <<"<", "e", "n", "v", "i", "r", "o", "n", "m", "e", "n", "t", "_",
                     "c", "o", "n", "t", "e", "x", "t", ">", "x">>,
      agents |-> <<"#", " ", "A", "G", "E", "N", "T", "S", ".", "m", "d", " ", "x">>,
      \* a prompt of 64 characters, a tab among them
      longPrompt |-> <<"g", "o", "\t">> \o repeat("y", 61),
      \* a message of white space only
      blank |-> <<" ", " ">> ]

DigestFragments ==
    { UserFragment(Text.hi), AssistantFragment(Text.filler), UserFragment(Text.spaced),
      AssistantFragment(Text.quotesMarker), UserFragment(Text.endsLikeMarker) }

FragmentLists == UNION { [1..n -> DigestFragments] : n \in 0..MaxParts }

Budgets == (0 - 1)..MaxBudget

----------------------------------------------------------------------------
(* JSON values, as JSON.parse returns them.                                *)
(* A string is a sequence of characters. Three kinds of string are kept    *)
(* apart by what the code parses out of them: a timestamp string (what     *)
(* new Date(s).getTime() returns), a string holding JSON text (what        *)
(* JSON.parse returns) and a numeric string (what Number(s) returns).      *)

JUndefined == [t |-> "undefined"]
JNull == [t |-> "null"]
JStr(s) == [t |-> "string", v |-> s]
JDate(ms) == [t |-> "datestring", v |-> ms]
JJson(val) == [t |-> "jsonstring", v |-> val]
JNumStr(n) == [t |-> "numstring", v |-> n]
JNum(n) == [t |-> "number", v |-> n]
JObj(f) == [t |-> "object", v |-> f]
JArr(a) == [t |-> "array", v |-> a]

\* typeof x === 'string'
IsString(x) == x.t \in {"string", "datestring", "jsonstring", "numstring"}
\* x is null or undefined (what ?? skips)
IsNullish(x) == x.t \in {"null", "undefined"}
\* JavaScript truthiness, for the values the parsers test
Truthy(x) ==
    CASE x.t = "string" -> x.v # <<>>
      [] x.t \in {"datestring", "jsonstring", "numstring"} -> TRUE
      [] x.t = "number" -> x.v # 0
      [] x.t \in {"object", "array"} -> TRUE
      [] OTHER -> FALSE

\* a ?? b
Coalesce(a, b) == IF IsNullish(a) THEN b ELSE a

\* record[key] of a parsed value (undefined when the key is absent)
Get(x, key) ==
    IF x.t = "object" /\ key \in DOMAIN x.v THEN x.v[key] ELSE JUndefined

\* s.startsWith(prefix)
startsWith(s, prefix) == Len(s) >= Len(prefix) /\ SubSeq(s, 1, Len(prefix)) = prefix

\* s.trim()
trim(s) == trimStart(trimEnd(s))

UpperChars == <<"A", "B", "C", "D", "E", "F", "G", "H", "I", "J", "K", "L", "M",
                "N", "O", "P", "Q", "R", "S", "T", "U", "V", "W", "X", "Y", "Z">>
LowerChars == <<"a", "b", "c", "d", "e", "f", "g", "h", "i", "j", "k", "l", "m",
                "n", "o", "p", "q", "r", "s", "t", "u", "v", "w", "x", "y", "z">>

\* s.toLowerCase()
toLowerCase(s) ==
    [i \in 1..Len(s) |->
        IF \E j \in 1..Len(UpperChars) : UpperChars[j] = s[i]
        THEN LowerChars[CHOOSE j \in 1..Len(UpperChars) : UpperChars[j] = s[i]]
        ELSE s[i]]

\* the string literals of the parsers
\* the property names the parsers read
Key ==
    [
      timestamp |-> <<"t", "i", "m", "e", "s", "t", "a", "m", "p">>,
      type |-> <<"t", "y", "p", "e">>,
      payload |-> <<"p", "a", "y", "l", "o", "a", "d">>,
      id |-> <<"i", "d">>,
      cwd |-> <<"c", "w", "d">>,
      model |-> <<"m", "o", "d", "e", "l">>,
      message |-> <<"m", "e", "s", "s", "a", "g", "e">>,
      text |-> <<"t", "e", "x", "t">>,
      info |-> <<"i", "n", "f", "o">>,
      last_token_usage |-> <<"l", "a", "s", "t", "_", "t", "o", "k", "e", "n", "_", "u", "s", "a", "g", "e">>,
      input_tokens |-> <<"i", "n", "p", "u", "t", "_", "t", "o", "k", "e", "n", "s">>,
      output_tokens |-> <<"o", "u", "t", "p", "u", "t", "_", "t", "o", "k", "e", "n", "s">>,
      reasoning_output_tokens |-> <<"r", "e", "a", "s", "o", "n", "i", "n", "g", "_", "o", "u", "t", "p", "u", "t", "_", "t", "o", "k", "e", "n", "s">>,
      cached_input_tokens |-> <<"c", "a", "c", "h", "e", "d", "_", "i", "n", "p", "u", "t", "_", "t", "o", "k", "e", "n", "s">>,
      cache_creation_input_tokens |-> <<"c", "a", "c", "h", "e", "_", "c", "r", "e", "a", "t", "i", "o", "n", "_", "i", "n", "p", "u", "t", "_", "t", "o", "k", "e", "n", "s">>,
      role |-> <<"r", "o", "l", "e">>,
      content |-> <<"c", "o", "n", "t", "e", "n", "t">>,
      name |-> <<"n", "a", "m", "e">>,
      arguments |-> <<"a", "r", "g", "u", "m", "e", "n", "t", "s">>,
      input |-> <<"i", "n", "p", "u", "t">>,
      filePath |-> <<"f", "i", "l", "e", "P", "a", "t", "h">>,
      path |-> <<"p", "a", "t", "h">>,
      file |-> <<"f", "i", "l", "e">>,
      filepath |-> <<"f", "i", "l", "e", "p", "a", "t", "h">>,
      command |-> <<"c", "o", "m", "m", "a", "n", "d">>,
      cmd |-> <<"c", "m", "d">>,
      pattern |-> <<"p", "a", "t", "t", "e", "r", "n">>,
      data |-> <<"d", "a", "t", "a">>,
      sessionId |-> <<"s", "e", "s", "s", "i", "o", "n", "I", "d">>,
      context |-> <<"c", "o", "n", "t", "e", "x", "t">>,
      gitRoot |-> <<"g", "i", "t", "R", "o", "o", "t">>,
      git_root |-> <<"g", "i", "t", "_", "r", "o", "o", "t">>,
      summary |-> <<"s", "u", "m", "m", "a", "r", "y">>,
      models |-> <<"m", "o", "d", "e", "l", "s">>,
      modelId |-> <<"m", "o", "d", "e", "l", "I", "d">>,
      modelName |-> <<"m", "o", "d", "e", "l", "N", "a", "m", "e">>,
      newModel |-> <<"n", "e", "w", "M", "o", "d", "e", "l">>,
      infoType |-> <<"i", "n", "f", "o", "T", "y", "p", "e">>,
      toolRequests |-> <<"t", "o", "o", "l", "R", "e", "q", "u", "e", "s", "t", "s">>,
      toolName |-> <<"t", "o", "o", "l", "N", "a", "m", "e">>,
      result |-> <<"r", "e", "s", "u", "l", "t">>,
      startTime |-> <<"s", "t", "a", "r", "t", "T", "i", "m", "e">>,
      usage |-> <<"u", "s", "a", "g", "e">>,
      tokenUsage |-> <<"t", "o", "k", "e", "n", "U", "s", "a", "g", "e">>,
      tokens |-> <<"t", "o", "k", "e", "n", "s">>,
      metrics |-> <<"m", "e", "t", "r", "i", "c", "s">>,
      value |-> <<"v", "a", "l", "u", "e">>,
      session_meta |-> <<"s", "e", "s", "s", "i", "o", "n", "_", "m", "e", "t", "a">>,
      turn_context |-> <<"t", "u", "r", "n", "_", "c", "o", "n", "t", "e", "x", "t">>,
      event_msg |-> <<"e", "v", "e", "n", "t", "_", "m", "s", "g">>,
      response_item |-> <<"r", "e", "s", "p", "o", "n", "s", "e", "_", "i", "t", "e", "m">>,
      token_count |-> <<"t", "o", "k", "e", "n", "_", "c", "o", "u", "n", "t">>,
      user_message |-> <<"u", "s", "e", "r", "_", "m", "e", "s", "s", "a", "g", "e">>,
      agent_message |-> <<"a", "g", "e", "n", "t", "_", "m", "e", "s", "s", "a", "g", "e">>,
      assistant_message |-> <<"a", "s", "s", "i", "s", "t", "a", "n", "t", "_", "m", "e", "s", "s", "a", "g", "e">>,
      function_call |-> <<"f", "u", "n", "c", "t", "i", "o", "n", "_", "c", "a", "l", "l">>,
      custom_tool_call |-> <<"c", "u", "s", "t", "o", "m", "_", "t", "o", "o", "l", "_", "c", "a", "l", "l">>,
      user |-> <<"u", "s", "e", "r">>,
      assistant |-> <<"a", "s", "s", "i", "s", "t", "a", "n", "t">>,
      tool |-> <<"t", "o", "o", "l">>,
      prompt_tokens |-> <<"p", "r", "o", "m", "p", "t", "_", "t", "o", "k", "e", "n", "s">>,
      inputTokens |-> <<"i", "n", "p", "u", "t", "T", "o", "k", "e", "n", "s">>,
      promptTokens |-> <<"p", "r", "o", "m", "p", "t", "T", "o", "k", "e", "n", "s">>,
      inputTokenCount |-> <<"i", "n", "p", "u", "t", "T", "o", "k", "e", "n", "C", "o", "u", "n", "t">>,
      promptTokenCount |-> <<"p", "r", "o", "m", "p", "t", "T", "o", "k", "e", "n", "C", "o", "u", "n", "t">>,
      completion_tokens |-> <<"c", "o", "m", "p", "l", "e", "t", "i", "o", "n", "_", "t", "o", "k", "e", "n", "s">>,
      outputTokens |-> <<"o", "u", "t", "p", "u", "t", "T", "o", "k", "e", "n", "s">>,
      completionTokens |-> <<"c", "o", "m", "p", "l", "e", "t", "i", "o", "n", "T", "o", "k", "e", "n", "s">>,
      outputTokenCount |-> <<"o", "u", "t", "p", "u", "t", "T", "o", "k", "e", "n", "C", "o", "u", "n", "t">>,
      completionTokenCount |-> <<"c", "o", "m", "p", "l", "e", "t", "i", "o", "n", "T", "o", "k", "e", "n", "C", "o", "u", "n", "t">>,
      reasoning_tokens |-> <<"r", "e", "a", "s", "o", "n", "i", "n", "g", "_", "t", "o", "k", "e", "n", "s">>,
      reasoningTokens |-> <<"r", "e", "a", "s", "o", "n", "i", "n", "g", "T", "o", "k", "e", "n", "s">>,
      reasoningTokenCount |-> <<"r", "e", "a", "s", "o", "n", "i", "n", "g", "T", "o", "k", "e", "n", "C", "o", "u", "n", "t">>,
      cached_tokens |-> <<"c", "a", "c", "h", "e", "d", "_", "t", "o", "k", "e", "n", "s">>,
      cache_read_tokens |-> <<"c", "a", "c", "h", "e", "_", "r", "e", "a", "d", "_", "t", "o", "k", "e", "n", "s">>,
      cacheReadTokens |-> <<"c", "a", "c", "h", "e", "R", "e", "a", "d", "T", "o", "k", "e", "n", "s">>,
      cachedInputTokens |-> <<"c", "a", "c", "h", "e", "d", "I", "n", "p", "u", "t", "T", "o", "k", "e", "n", "s">>,
      cache_creation_tokens |-> <<"c", "a", "c", "h", "e", "_", "c", "r", "e", "a", "t", "i", "o", "n", "_", "t", "o", "k", "e", "n", "s">>,
      cache_write_tokens |-> <<"c", "a", "c", "h", "e", "_", "w", "r", "i", "t", "e", "_", "t", "o", "k", "e", "n", "s">>,
      cacheWriteTokens |-> <<"c", "a", "c", "h", "e", "W", "r", "i", "t", "e", "T", "o", "k", "e", "n", "s">>,
      cacheCreationInputTokens |-> <<"c", "a", "c", "h", "e", "C", "r", "e", "a", "t", "i", "o", "n", "I", "n", "p", "u", "t", "T", "o", "k", "e", "n", "s">>,
      total_token_usage |-> <<"t", "o", "t", "a", "l", "_", "t", "o", "k", "e", "n", "_", "u", "s", "a", "g", "e">>
    ]

\* the event types of the Copilot log
EventType ==
    [
      session_start |-> <<"s", "e", "s", "s", "i", "o", "n", ".", "s", "t", "a", "r", "t">>,
      user_message |-> <<"u", "s", "e", "r", ".", "m", "e", "s", "s", "a", "g", "e">>,
      assistant_message |-> <<"a", "s", "s", "i", "s", "t", "a", "n", "t", ".", "m", "e", "s", "s", "a", "g", "e">>,
      assistant_turn_start |-> <<"a", "s", "s", "i", "s", "t", "a", "n", "t", ".", "t", "u", "r", "n", "_", "s", "t", "a", "r", "t">>,
      assistant_turn_end |-> <<"a", "s", "s", "i", "s", "t", "a", "n", "t", ".", "t", "u", "r", "n", "_", "e", "n", "d">>,
      tool_execution_start |-> <<"t", "o", "o", "l", ".", "e", "x", "e", "c", "u", "t", "i", "o", "n", "_", "s", "t", "a", "r", "t">>,
      tool_execution_complete |-> <<"t", "o", "o", "l", ".", "e", "x", "e", "c", "u", "t", "i", "o", "n", "_", "c", "o", "m", "p", "l", "e", "t", "e">>,
      session_info |-> <<"s", "e", "s", "s", "i", "o", "n", ".", "i", "n", "f", "o">>,
      assistant_usage |-> <<"a", "s", "s", "i", "s", "t", "a", "n", "t", ".", "u", "s", "a", "g", "e">>,
      session_model_change |-> <<"s", "e", "s", "s", "i", "o", "n", ".", "m", "o", "d", "e", "l", "_", "c", "h", "a", "n", "g", "e">>
    ]

\* the string literals the parsers compare text with
Literal ==
    [
      environment_context |-> <<"<", "e", "n", "v", "i", "r", "o", "n", "m", "e", "n", "t", "_", "c", "o", "n", "t", "e", "x", "t", ">">>,
      AGENTS_md |-> <<"#", " ", "A", "G", "E", "N", "T", "S", ".", "m", "d">>,
      agent_instructions |-> <<"<", "a", "g", "e", "n", "t", "_", "i", "n", "s", "t", "r", "u", "c", "t", "i", "o", "n", "s", ">">>,
      bash_prefix |-> <<"b", "a", "s", "h", ":", " ">>,
      model_changed_to |-> <<"m", "o", "d", "e", "l", " ", "c", "h", "a", "n", "g", "e", "d", " ", "t", "o", ":">>,
      http |-> <<"h", "t", "t", "p", ":", "/", "/">>,
      https |-> <<"h", "t", "t", "p", "s", ":", "/", "/">>
    ]

\* the values the logs below carry
Sample ==
    [
      model |-> <<"g", "5">>,
      model2 |-> <<"o", "3">>,
      id |-> <<"i", "d", "1">>,
      cwd |-> <<"/", "r">>,
      path |-> <<"/", "r", "/", "a">>,
      view |-> <<"v", "i", "e", "w">>,
      fileId |-> <<"f", "1">>,
      url |-> <<"h", "t", "t", "p", ":", "/", "/", "x", "/", "y">>,
      \* a command of 81 characters
      longCommand |-> <<"l", "s", " ">> \o repeat("z", 78)
    ]

----------------------------------------------------------------------------
(* Private helpers shared, with the same body, by both parser classes *)

\* asRecord: a non-null object that is not an array, else null
asRecord(value) == IF value.t = "object" THEN value ELSE JNull

stringOrNull(value) == IF IsString(value) THEN value ELSE JNull

stringFromRecord(record, key) ==
    IF record.t # "object" THEN JNull ELSE stringOrNull(Get(record, key))

numberOrZero(value) == IF value.t = "number" THEN value.v ELSE 0

\* parseMaybeJson: only a string holding JSON text of an object or array parses
parseMaybeJson(value) == IF value.t = "jsonstring" THEN value.v ELSE value

\* new Date(s).getTime(), as a number or null where the code tests for NaN
dateMs(value) == IF value.t = "datestring" THEN JNum(value.v) ELSE JNull

\* os.homedir()
HomeDir == <<"/", "h">>

shortenHomePath(pathValue) ==
    IF startsWith(pathValue, HomeDir)
    THEN <<"~">> \o SliceFrom(pathValue, Len(HomeDir))
    ELSE pathValue

\* truncatePrompt: prompt.replace(/\s+/g, ' ').trim(), then at most 60 characters
RECURSIVE collapseWhitespace(_)
collapseWhitespace(s) ==
    IF s = <<>> THEN <<>>
    ELSE IF s[1] \in Whitespace
         THEN <<" ">> \o collapseWhitespace(trimStart(s))
         ELSE <<s[1]>> \o collapseWhitespace(Tail(s))

truncatePrompt(prompt) ==
    LET clean == trim(collapseWhitespace(prompt))
    IN  IF Len(clean) <= 60 THEN clean
        ELSE SliceTo(clean, 57) \o <<".", ".", ".">>

\* path.basename(p): the last segment, trailing separators dropped
RECURSIVE basename(_)
basename(p) ==
    IF p = <<>> THEN <<>>
    ELSE IF p[Len(p)] = "/" THEN basename(SubSeq(p, 1, Len(p) - 1))
    ELSE LET cuts == { i \in 1..Len(p) : p[i] = "/" }
         IN  IF cuts = {} THEN p
             ELSE SubSeq(p, (CHOOSE i \in cuts : \A j \in cuts : j <= i) + 1, Len(p))

\* emptyTokenUsage()
emptyTokenUsage ==
    [input |-> 0, output |-> 0, reasoning |-> 0, cacheRead |-> 0, cacheWrite |-> 0, total |-> 0]

\* variant: the total of the result is summed from the buckets of the result
sumTokens_TotalFromBuckets(usages) ==
    LET field(f) == LET RECURSIVE upTo(_)
                        upTo(n) == IF n = 0 THEN 0 ELSE upTo(n - 1) + usages[n][f]
                    IN  upTo(Len(usages))
    IN  [input |-> field("input"), output |-> field("output"),
         reasoning |-> field("reasoning"), cacheRead |-> field("cacheRead"),
         cacheWrite |-> field("cacheWrite"),
         total |-> field("input") + field("output") + field("reasoning")
                     + field("cacheRead") + field("cacheWrite")]

\* sumTokens(...usages): starting from emptyTokenUsage(), every field of every
\* operand is added to the same field of the result, total like the buckets
sumTokens(usages) ==
    LET RECURSIVE upTo(_)
        upTo(n) ==
            IF n = 0 THEN emptyTokenUsage
            ELSE LET sum == upTo(n - 1)
                     usage == usages[n]
                 IN  [input |-> sum.input + usage.input,
                      output |-> sum.output + usage.output,
                      reasoning |-> sum.reasoning + usage.reasoning,
                      cacheRead |-> sum.cacheRead + usage.cacheRead,
                      cacheWrite |-> sum.cacheWrite + usage.cacheWrite,
                      total |-> sum.total + usage.total]
    IN  upTo(Len(usages))

\* Set.add on an insertion-ordered set
SetAdd(seq, x) == IF \E i \in 1..Len(seq) : seq[i] = x THEN seq ELSE Append(seq, x)

----------------------------------------------------------------------------
(* CodexParser (the second half of src/src/parsers/digest.ts) *)


\* let dayEarliest = Infinity; let dayLatest = -Infinity (timestamps lie strictly between)
Infinity == 2147483647

Codex_extractTimestampMs(line) ==
    LET top == dateMs(Get(line, Key.timestamp))
        payload == asRecord(Get(line, Key.payload))
        inner == dateMs(Get(payload, Key.timestamp))
    IN  IF top.t = "number" THEN top
        ELSE IF inner.t = "number" THEN inner
        ELSE JNull

\* the texts of the content parts that carry one, in order
RECURSIVE Codex_contentParts(_)
Codex_contentParts(items) ==
    IF items = <<>> THEN <<>>
    ELSE LET rec == asRecord(items[1])
             text == Coalesce(stringOrNull(Get(rec, Key.text)), stringOrNull(Get(rec, Key.content)))
         IN  (IF rec.t = "object" /\ Truthy(text) THEN <<text.v>> ELSE <<>>)
               \o Codex_contentParts(Tail(items))

Codex_extractMessageText(content) ==
    IF IsString(content) THEN content.v
    ELSE IF content.t # "array" THEN <<>>
    ELSE trim(join(Codex_contentParts(content.v), <<"\n">>))

Codex_looksLikeSystemEnvelope(text) ==
    includes(text, Literal.environment_context) \/ startsWith(text, Literal.AGENTS_md)

Codex_isPathLikeKey(key) ==
    LET normalized == toLowerCase(key)
    IN  includes(normalized, Key.path) \/ normalized = Key.file \/ includes(normalized, Key.file)

Codex_looksLikePath(value) ==
    IF value = <<>> \/ Len(value) > 500 \/ includes(value, <<"\n">>) THEN FALSE
    ELSE \/ includes(value, <<"/">>)
         \/ includes(value, <<"\\">>)
         \/ startsWith(value, <<"~">>)
         \/ startsWith(value, <<".">>)

\* the paths collectFilePaths adds to its out set
RECURSIVE Codex_collectFilePaths(_)
Codex_collectFilePaths(value) ==
    IF IsString(value) THEN {}
    ELSE IF value.t = "array"
         THEN UNION { Codex_collectFilePaths(value.v[i]) : i \in 1..Len(value.v) }
    ELSE IF value.t # "object" THEN {}
    ELSE UNION { LET raw == value.v[key]
                 IN  IF raw.t = "string" /\ Codex_isPathLikeKey(key) /\ Codex_looksLikePath(raw.v)
                     THEN {raw.v}
                     ELSE IF raw.t \in {"object", "array"} THEN Codex_collectFilePaths(raw)
                     ELSE {}
                 : key \in DOMAIN value.v }

\* summarizeToolCall: the summary line (a string; '' is falsy) ...
Codex_toolSummary(name, rawInput) ==
    LET toolName == IF IsNullish(name) THEN Key.tool ELSE name.v
        parsedInput == parseMaybeJson(rawInput)
        input == asRecord(parsedInput)
        filePath == Coalesce(stringFromRecord(input, Key.filePath),
                    Coalesce(stringFromRecord(input, Key.path),
                    Coalesce(stringFromRecord(input, Key.file),
                             stringFromRecord(input, Key.filepath))))
        command == stringFromRecord(input, Key.command)
        pattern == stringFromRecord(input, Key.pattern)
    IN  IF Truthy(filePath) THEN toolName \o <<" ">> \o shortenHomePath(filePath.v)
        ELSE IF Truthy(command) THEN Literal.bash_prefix \o SliceTo(command.v, 80)
        ELSE IF Truthy(pattern) THEN toolName \o <<":", " ">> \o pattern.v
        ELSE IF parsedInput.t = "string" /\ trim(parsedInput.v) # <<>>
             THEN toolName \o <<":", " ">> \o SliceTo(trim(parsedInput.v), 80)
        ELSE toolName

\* ... and its side effect on filesTouched
Codex_toolPaths(rawInput) == Codex_collectFilePaths(parseMaybeJson(rawInput))

Codex_addTokenUsage(tokens, payload) ==
    LET info == asRecord(Get(payload, Key.info))
        usage == Coalesce(asRecord(Get(info, Key.last_token_usage)),
                          asRecord(Get(payload, Key.last_token_usage)))
    IN  IF usage.t # "object" THEN tokens
        ELSE [tokens EXCEPT
                !.input = @ + numberOrZero(Get(usage, Key.input_tokens)),
                !.output = @ + numberOrZero(Get(usage, Key.output_tokens)),
                !.reasoning = @ + numberOrZero(Get(usage, Key.reasoning_output_tokens)),
                !.cacheRead = @ + numberOrZero(Get(usage, Key.cached_input_tokens)),
                !.cacheWrite = @ + numberOrZero(Get(usage, Key.cache_creation_input_tokens))]

\* the locals of parseSessionFile before the first line (lines 135-154)
Codex_initial(fileId) ==
    [ sessionId |-> JStr(fileId), projectPath |-> JNull, projectName |-> JNull,
      title |-> JNull, userMessageCount |-> 0, assistantMessageCount |-> 0,
      models |-> <<>>, tokens |-> emptyTokenUsage, filesTouched |-> {},
      toolCallSummaries |-> <<>>, digestParts |-> <<>>, activityTimestamps |-> <<>>,
      sawStructuredMessages |-> FALSE, dayEarliest |-> Infinity, dayLatest |-> 0 - Infinity ]

\* type === 'session_meta' (lines 170-179): runs before the day test
Codex_sessionMeta(a, parsed) ==
    LET payload == asRecord(Get(parsed, Key.payload))
        id == Get(payload, Key.id)
        cwd == Get(payload, Key.cwd)
        a1 == IF IsString(id) /\ Truthy(id) THEN [a EXCEPT !.sessionId = id] ELSE a
    IN  IF Get(parsed, Key.type) # JStr(Key.session_meta) \/ payload.t # "object" THEN a
        ELSE IF IsString(cwd) /\ Truthy(cwd)
             THEN [a1 EXCEPT !.projectPath = cwd, !.projectName = JStr(basename(cwd.v))]
             ELSE a1

\* variant: every user message that is no envelope replaces the title
Codex_userMessage_LastTitleWins(a, ts, text) ==
    [a EXCEPT
        !.userMessageCount = @ + 1,
        !.digestParts = Append(@, UserFragment(text)),
        !.title = IF ~Codex_looksLikeSystemEnvelope(text)
                  THEN JStr(truncatePrompt(text)) ELSE @]

\* a user message with text: count, activity, digest fragment, title
Codex_userMessage(a, ts, text) ==
    [a EXCEPT
        !.userMessageCount = @ + 1,
        !.digestParts = Append(@, UserFragment(text)),
        !.title = IF ~Truthy(@) /\ ~Codex_looksLikeSystemEnvelope(text)
                  THEN JStr(truncatePrompt(text)) ELSE @]

\* variant: an assistant message is counted as a user message
Codex_assistantMessage_AsUser(a, ts, text) ==
    [a EXCEPT
        !.userMessageCount = @ + 1,
        !.digestParts = Append(@, AssistantFragment(text))]

Codex_assistantMessage(a, ts, text) ==
    [a EXCEPT
        !.assistantMessageCount = @ + 1,
        !.digestParts = Append(@, AssistantFragment(text))]

Codex_pushActivity(a, ts) == [a EXCEPT !.activityTimestamps = Append(@, ts)]

\* type === 'event_msg' (lines 194-220)
Codex_eventMsg(a, ts, parsed) ==
    LET payload == asRecord(Get(parsed, Key.payload))
        eventType == stringOrNull(Get(payload, Key.type))
        userText == stringOrNull(Get(payload, Key.message))
        agentText == Coalesce(stringOrNull(Get(payload, Key.message)),
                              stringOrNull(Get(payload, Key.text)))
    IN  IF payload.t # "object" THEN a
        ELSE IF eventType = JStr(Key.token_count)
             THEN [a EXCEPT !.tokens = Codex_addTokenUsage(@, payload)]
        ELSE IF ~a.sawStructuredMessages /\ eventType = JStr(Key.user_message)
             THEN IF Truthy(userText)
                  THEN Codex_userMessage(Codex_pushActivity(a, ts), ts, userText.v)
                  ELSE a
        ELSE IF ~a.sawStructuredMessages
                /\ eventType \in {JStr(Key.agent_message), JStr(Key.assistant_message)}
             THEN IF Truthy(agentText)
                  THEN Codex_assistantMessage(Codex_pushActivity(a, ts), ts, agentText.v)
                  ELSE a
        ELSE a

\* a tool call item (lines 246-266)
Codex_toolCall(a, ts, name, rawInput) ==
    LET summary == Codex_toolSummary(name, rawInput)
        a1 == [a EXCEPT !.filesTouched = @ \cup Codex_toolPaths(rawInput)]
    IN  IF summary # <<>>
        THEN Codex_pushActivity([a1 EXCEPT !.toolCallSummaries = Append(@, summary)], ts)
        ELSE a1

\* type === 'response_item' (lines 222-266)
Codex_responseItem(a, ts, parsed) ==
    LET payload == asRecord(Get(parsed, Key.payload))
        itemType == stringOrNull(Get(payload, Key.type))
        role == stringOrNull(Get(payload, Key.role))
        text == Codex_extractMessageText(Get(payload, Key.content))
        a1 == [a EXCEPT !.sawStructuredMessages = TRUE]
    IN  IF payload.t # "object" THEN a
        ELSE IF itemType = JStr(Key.message)
             THEN IF ~Truthy(role) \/ text = <<>> THEN a1
                  ELSE IF role = JStr(Key.user)
                       THEN Codex_userMessage(Codex_pushActivity(a1, ts), ts, text)
                  ELSE IF role = JStr(Key.assistant)
                       THEN Codex_assistantMessage(Codex_pushActivity(a1, ts), ts, text)
                  ELSE Codex_pushActivity(a1, ts)
        ELSE IF itemType = JStr(Key.function_call)
             THEN Codex_toolCall(a, ts, stringOrNull(Get(payload, Key.name)), Get(payload, Key.arguments))
        ELSE IF itemType = JStr(Key.custom_tool_call)
             THEN Codex_toolCall(a, ts, stringOrNull(Get(payload, Key.name)), Get(payload, Key.input))
        ELSE a

\* variant: the day has no lower end
inDayOf_NoLowerBound(ts, dayStartMs, dayEndMs) ==
    ts.t = "number" /\ ts.v <= dayEndMs

\* variant: the day has no upper end
inDayOf_NoUpperBound(ts, dayStartMs, dayEndMs) ==
    ts.t = "number" /\ ts.v >= dayStartMs

\* const inDay = ts !== null && ts >= dayStartMs && ts <= dayEndMs
inDayOf(ts, dayStartMs, dayEndMs) ==
    ts.t = "number" /\ ts.v >= dayStartMs /\ ts.v <= dayEndMs

\* one iteration of the loop over the parsed lines (lines 157-267)
Codex_line(a, parsed, dayStartMs, dayEndMs) ==
    LET ts == Codex_extractTimestampMs(parsed)
        inDay == inDayOf(ts, dayStartMs, dayEndMs)
        a1 == Codex_sessionMeta(a, parsed)
        a2 == [a1 EXCEPT !.dayEarliest = Min(@, ts.v), !.dayLatest = Max(@, ts.v)]
        type == Get(parsed, Key.type)
        payload == asRecord(Get(parsed, Key.payload))
        model == Get(payload, Key.model)
    IN  IF ~inDay THEN a1
        ELSE IF type = JStr(Key.turn_context)
             THEN IF payload.t = "object" /\ IsString(model) /\ Truthy(model)
                  THEN [a2 EXCEPT !.models = SetAdd(@, model)]
                  ELSE a2
        ELSE IF type = JStr(Key.event_msg) THEN Codex_eventMsg(a2, ts.v, parsed)
        ELSE IF type # JStr(Key.response_item) THEN a2
        ELSE Codex_responseItem(a2, ts.v, parsed)

----------------------------------------------------------------------------
(* CopilotParser (src/unnamed/part_003) *)

\* the alias lists of applyUsageFromRecord, in search order
usageAliases ==
    [ input |->
        <<Key.input_tokens, Key.prompt_tokens, Key.inputTokens, Key.promptTokens, Key.inputTokenCount, Key.promptTokenCount>>,
      output |->
        <<Key.output_tokens, Key.completion_tokens, Key.outputTokens, Key.completionTokens, Key.outputTokenCount, Key.completionTokenCount>>,
      reasoning |->
        <<Key.reasoning_tokens, Key.reasoning_output_tokens, Key.reasoningTokens, Key.reasoningTokenCount>>,
      cacheRead |->
        <<Key.cached_input_tokens, Key.cached_tokens, Key.cache_read_tokens, Key.cacheReadTokens, Key.cachedInputTokens>>,
      cacheWrite |->
        <<Key.cache_creation_input_tokens, Key.cache_creation_tokens, Key.cache_write_tokens, Key.cacheWriteTokens, Key.cacheCreationInputTokens>> ]

\* const nestedKeys = ['usage', 'tokenUsage', 'tokens', 'metrics', 'result']
nestedKeys == <<Key.usage, Key.tokenUsage, Key.tokens, Key.metrics, Key.result>>


Copilot_extractTimestampMs(event) ==
    LET top == dateMs(Get(event, Key.timestamp))
        data == asRecord(Get(event, Key.data))
        fallback == Coalesce(stringFromRecord(data, Key.timestamp),
                             stringFromRecord(data, Key.startTime))
    IN  IF top.t = "number" THEN top
        ELSE IF data.t # "object" THEN JNull
        ELSE IF ~Truthy(fallback) THEN JNull
        ELSE dateMs(fallback)

\* the first string among rec.text, rec.content, rec.value
Copilot_partText(rec) ==
    Coalesce(stringFromRecord(rec, Key.text),
    Coalesce(stringFromRecord(rec, Key.content), stringFromRecord(rec, Key.value)))

RECURSIVE Copilot_contentParts(_)
Copilot_contentParts(items) ==
    IF items = <<>> THEN <<>>
    ELSE LET part == items[1]
             rec == asRecord(part)
             text == Copilot_partText(rec)
         IN  (IF part.t = "string"
              THEN (IF trim(part.v) # <<>> THEN <<part.v>> ELSE <<>>)
              ELSE IF rec.t = "object" /\ Truthy(text) THEN <<text.v>>
              ELSE <<>>)
               \o Copilot_contentParts(Tail(items))

\* extractMessageText: the text, or '' where the code returns null
Copilot_extractMessageText(data) ==
    LET content == Get(data, Key.content)
        text == Copilot_partText(asRecord(content))
    IN  IF data.t # "object" THEN <<>>
        ELSE IF content.t = "string" THEN trim(content.v)
        ELSE IF content.t = "array" THEN trim(join(Copilot_contentParts(content.v), <<"\n">>))
        ELSE IF content.t # "object" \/ ~Truthy(text) THEN <<>>
        ELSE trim(text.v)

Copilot_looksLikeSystemEnvelope(text) ==
    \/ includes(text, Literal.environment_context)
    \/ startsWith(text, Literal.AGENTS_md)
    \/ includes(text, Literal.agent_instructions)

\* message.match(/Model changed to:\s*([^\s(]+)/i): the capture, or '' without a match
Copilot_modelChangedTo(message) ==
    LET lower == toLowerCase(message)
        n == Len(Literal.model_changed_to)
        \* the capture of an attempt at position i: the run that is neither space nor '('
        rest(i) == trimStart(SliceFrom(message, i - 1 + n))
        stops(r) == { k \in 1..Len(r) : r[k] \in Whitespace \cup {"("} }
        capture(i) ==
            LET r == rest(i)
            IN  IF stops(r) = {} THEN r
                ELSE SliceTo(r, (CHOOSE k \in stops(r) : \A j \in stops(r) : k <= j) - 1)
        hits == { i \in 1..(Len(message) - n + 1) :
                    SubSeq(lower, i, i + n - 1) = Literal.model_changed_to /\ capture(i) # <<>> }
    IN  IF hits = {} THEN <<>>
        ELSE capture(CHOOSE i \in hits : \A j \in hits : i <= j)

RECURSIVE Copilot_addModelList(_, _)
Copilot_addModelList(models, items) ==
    IF items = <<>> THEN models
    ELSE Copilot_addModelList(
            IF IsString(items[1]) /\ Truthy(items[1]) THEN SetAdd(models, items[1]) ELSE models,
            Tail(items))

RECURSIVE Copilot_addDirectModels(_, _, _)
Copilot_addDirectModels(models, data, keys) ==
    IF keys = <<>> THEN models
    ELSE LET value == stringFromRecord(data, keys[1])
         IN  Copilot_addDirectModels(
                IF Truthy(value) THEN SetAdd(models, value) ELSE models, data, Tail(keys))

\* collectModels (lines 320-352)
Copilot_collectModels(eventType, data, models) ==
    LET m1 == Copilot_addDirectModels(models, data, <<Key.model, Key.modelId, Key.modelName, Key.newModel>>)
        modelList == Get(data, Key.models)
        m2 == IF modelList.t = "array" THEN Copilot_addModelList(m1, modelList.v) ELSE m1
        contextModel == stringFromRecord(asRecord(Get(data, Key.context)), Key.model)
        m3 == IF Truthy(contextModel) THEN SetAdd(m2, contextModel) ELSE m2
        infoType == stringFromRecord(data, Key.infoType)
        message == stringFromRecord(data, Key.message)
    IN  IF data.t # "object" THEN models
        ELSE IF eventType = JStr(EventType.session_info) /\ infoType = JStr(Key.model)
                /\ message.t = "string" /\ Copilot_modelChangedTo(message.v) # <<>>
             THEN SetAdd(m3, JStr(Copilot_modelChangedTo(message.v)))
        ELSE m3

\* numberOrNull: a finite number, or a string Number() reads as one
numberOrNull(value) ==
    IF value.t \in {"number", "numstring"} THEN JNum(value.v) ELSE JNull

RECURSIVE firstNumber(_, _)
firstNumber(record, keys) ==
    IF keys = <<>> THEN JNull
    ELSE IF numberOrNull(Get(record, keys[1])).t = "number" THEN numberOrNull(Get(record, keys[1]))
    ELSE firstNumber(record, Tail(keys))

\* applyUsageFromRecord returns true: some bucket has a number at this object
Copilot_usageFound(record) ==
    \/ firstNumber(record, usageAliases.input).t = "number"
    \/ firstNumber(record, usageAliases.output).t = "number"
    \/ firstNumber(record, usageAliases.reasoning).t = "number"
    \/ firstNumber(record, usageAliases.cacheRead).t = "number"
    \/ firstNumber(record, usageAliases.cacheWrite).t = "number"

\* value ?? 0 of a firstNumber result
numberOr0(x) == IF x.t = "number" THEN x.v ELSE 0

\* applyUsageFromRecord: the tokens after the additions
Copilot_applyUsageFromRecord(record, tokens) ==
    IF ~Copilot_usageFound(record) THEN tokens
    ELSE [tokens EXCEPT
            !.input = @ + numberOr0(firstNumber(record, usageAliases.input)),
            !.output = @ + numberOr0(firstNumber(record, usageAliases.output)),
            !.reasoning = @ + numberOr0(firstNumber(record, usageAliases.reasoning)),
            !.cacheRead = @ + numberOr0(firstNumber(record, usageAliases.cacheRead)),
            !.cacheWrite = @ + numberOr0(firstNumber(record, usageAliases.cacheWrite))]

RECURSIVE Copilot_visitUsageRecord(_, _, _)
RECURSIVE Copilot_visitNested(_, _, _, _)
\* visitUsageRecord (lines 443-458)
Copilot_visitUsageRecord(value, tokens, depth) ==
    LET record == asRecord(value)
    IN  IF depth > 3 THEN tokens
        ELSE IF record.t # "object" THEN tokens
        ELSE IF Copilot_usageFound(record) THEN Copilot_applyUsageFromRecord(record, tokens)
        ELSE Copilot_visitNested(record, tokens, depth, 1)

\* for (const key of nestedKeys) this.visitUsageRecord(record[key], tokens, depth + 1)
Copilot_visitNested(record, tokens, depth, k) ==
    IF k > Len(nestedKeys) THEN tokens
    ELSE Copilot_visitNested(
            record,
            Copilot_visitUsageRecord(Get(record, nestedKeys[k]), tokens, depth + 1),
            depth, k + 1)

Copilot_isPathLikeKey(key) ==
    LET normalized == toLowerCase(key)
    IN  \/ includes(normalized, Key.path)
        \/ includes(normalized, Key.file)
        \/ normalized = Key.cwd
        \/ normalized = toLowerCase(Key.gitRoot)
        \/ normalized = Key.git_root

Copilot_looksLikePath(value) ==
    IF value = <<>> \/ Len(value) > 500 \/ includes(value, <<"\n">>) THEN FALSE
    ELSE IF startsWith(toLowerCase(value), Literal.http) \/ startsWith(toLowerCase(value), Literal.https)
         THEN FALSE
    ELSE \/ includes(value, <<"/">>)
         \/ includes(value, <<"\\">>)
         \/ startsWith(value, <<"~">>)
         \/ startsWith(value, <<".", "/">>)
         \/ startsWith(value, <<".", ".", "/">>)

\* the paths collectFilePaths adds to its out set (lines 513-543)
RECURSIVE Copilot_collectFilePaths(_)
Copilot_collectFilePaths(value) ==
    IF IsString(value) THEN {}
    ELSE IF value.t = "array"
         THEN UNION { Copilot_collectFilePaths(value.v[i]) : i \in 1..Len(value.v) }
    ELSE IF value.t # "object" THEN {}
    ELSE UNION { LET raw == value.v[key]
                 IN  IF IsString(raw)
                     THEN IF parseMaybeJson(raw) # raw
                          THEN Copilot_collectFilePaths(parseMaybeJson(raw))
                          ELSE IF raw.t = "string" /\ Copilot_isPathLikeKey(key)
                                  /\ Copilot_looksLikePath(raw.v)
                               THEN {raw.v}
                               ELSE {}
                     ELSE IF raw.t \in {"object", "array"} THEN Copilot_collectFilePaths(raw)
                     ELSE {}
                 : key \in DOMAIN value.v }

\* summarizeToolCall: the summary line ...
Copilot_toolSummary(name, rawInput) ==
    LET toolName == IF IsNullish(name) THEN Key.tool ELSE name.v
        parsedInput == parseMaybeJson(rawInput)
        input == asRecord(parsedInput)
        filePath == Coalesce(stringFromRecord(input, Key.filePath),
                    Coalesce(stringFromRecord(input, Key.path),
                    Coalesce(stringFromRecord(input, Key.file),
                             stringFromRecord(input, Key.filepath))))
        command == Coalesce(stringFromRecord(input, Key.command), stringFromRecord(input, Key.cmd))
        pattern == stringFromRecord(input, Key.pattern)
    IN  IF Truthy(filePath) THEN toolName \o <<" ">> \o shortenHomePath(filePath.v)
        ELSE IF Truthy(command) THEN Literal.bash_prefix \o SliceTo(command.v, 80)
        ELSE IF Truthy(pattern) THEN toolName \o <<":", " ">> \o pattern.v
        ELSE IF parsedInput.t = "string" /\ trim(parsedInput.v) # <<>>
             THEN toolName \o <<":", " ">> \o SliceTo(trim(parsedInput.v), 80)
        ELSE toolName

\* ... and its side effect on filesTouched
Copilot_toolPaths(rawInput) == Copilot_collectFilePaths(parseMaybeJson(rawInput))

\* the locals of parseSessionFile before the first line (lines 107-127);
\* workspace is what parseWorkspaceMetadata returned
Copilot_initial(sessionId, workspace) ==
    LET projectPath == Coalesce(workspace.cwd, workspace.gitRoot)
    IN  [ sessionId |-> JStr(sessionId), projectPath |-> projectPath,
          projectName |-> IF Truthy(projectPath) THEN JStr(basename(projectPath.v)) ELSE JNull,
          title |-> workspace.summary, userMessageCount |-> 0, assistantMessageCount |-> 0,
          models |-> <<>>, tokens |-> emptyTokenUsage, filesTouched |-> {},
          toolCallSummaries |-> <<>>, digestParts |-> <<>>, activityTimestamps |-> <<>>,
          sawStructuredMessages |-> FALSE, dayEarliest |-> Infinity, dayLatest |-> 0 - Infinity ]

\* event.type === 'session.start' && data (lines 142-165): runs before the day test
Copilot_sessionStart(a, event) ==
    LET data == asRecord(Get(event, Key.data))
        sessionIdFromEvent == stringFromRecord(data, Key.sessionId)
        context == asRecord(Get(data, Key.context))
        cwd == Coalesce(stringFromRecord(context, Key.cwd), stringFromRecord(data, Key.cwd))
        gitRoot == Coalesce(stringFromRecord(context, Key.gitRoot),
                   Coalesce(stringFromRecord(context, Key.git_root),
                   Coalesce(stringFromRecord(data, Key.gitRoot),
                            stringFromRecord(data, Key.git_root))))
        projectPath == Coalesce(cwd, Coalesce(gitRoot, JNull))
        summary == stringFromRecord(data, Key.summary)
        a1 == IF Truthy(sessionIdFromEvent) THEN [a EXCEPT !.sessionId = sessionIdFromEvent] ELSE a
        a2 == IF Truthy(cwd) \/ Truthy(gitRoot)
              THEN [a1 EXCEPT !.projectPath = projectPath,
                              !.projectName = IF Truthy(projectPath)
                                              THEN JStr(basename(projectPath.v)) ELSE JNull]
              ELSE a1
    IN  IF Get(event, Key.type) # JStr(EventType.session_start) \/ data.t # "object" THEN a
        ELSE IF ~Truthy(a2.title) /\ Truthy(summary) THEN [a2 EXCEPT !.title = summary]
        ELSE a2

Copilot_pushActivity(a, ts) == [a EXCEPT !.activityTimestamps = Append(@, ts)]

\* one tool summary: the paths are collected, a truthy summary is pushed
Copilot_toolCall(a, name, rawInput) ==
    LET summary == Copilot_toolSummary(name, rawInput)
        a1 == [a EXCEPT !.filesTouched = @ \cup Copilot_toolPaths(rawInput)]
    IN  IF summary # <<>> THEN [a1 EXCEPT !.toolCallSummaries = Append(@, summary)] ELSE a1

\* for (const request of toolRequests) ... (lines 206-215)
RECURSIVE Copilot_toolRequests(_, _)
Copilot_toolRequests(a, requests) ==
    IF requests = <<>> THEN a
    ELSE LET req == asRecord(requests[1])
         IN  Copilot_toolRequests(
                IF req.t # "object" THEN a
                ELSE Copilot_toolCall(a, stringFromRecord(req, Key.name), Get(req, Key.arguments)),
                Tail(requests))

\* event.type === 'user.message' (lines 180-192)
Copilot_userMessage(a, ts, data) ==
    LET text == Copilot_extractMessageText(data)
        a1 == Copilot_pushActivity([a EXCEPT !.userMessageCount = @ + 1], ts)
    IN  IF text = <<>> THEN a1
        ELSE [a1 EXCEPT
                !.digestParts = Append(@, UserFragment(text)),
                !.title = IF ~Truthy(@) /\ ~Copilot_looksLikeSystemEnvelope(text)
                          THEN JStr(truncatePrompt(text)) ELSE @]

\* event.type === 'assistant.message' (lines 194-219)
Copilot_assistantMessage(a, ts, data) ==
    LET text == Copilot_extractMessageText(data)
        a1 == Copilot_pushActivity([a EXCEPT !.assistantMessageCount = @ + 1], ts)
        a2 == IF text = <<>> THEN a1
              ELSE [a1 EXCEPT !.digestParts = Append(@, AssistantFragment(text))]
        toolRequests == Get(data, Key.toolRequests)
    IN  IF data.t = "object" /\ toolRequests.t = "array"
        THEN Copilot_toolRequests(a2, toolRequests.v)
        ELSE a2

\* event.type is tool.execution_start or tool.execution_complete (lines 226-239)
Copilot_toolExecution(a, ts, data) ==
    LET a1 == Copilot_pushActivity(a, ts)
        a2 == Copilot_toolCall(a1,
                Coalesce(stringFromRecord(data, Key.toolName), stringFromRecord(data, Key.name)),
                Coalesce(Get(data, Key.arguments), Get(data, Key.result)))
    IN  IF data.t # "object" THEN a1
        ELSE [a2 EXCEPT !.filesTouched =
                @ \cup Copilot_collectFilePaths(parseMaybeJson(Get(data, Key.result)))]

\* one iteration of the loop over the parsed lines (lines 130-240)
Copilot_line(a, event, dayStartMs, dayEndMs) ==
    LET data == asRecord(Get(event, Key.data))
        type == Get(event, Key.type)
        a1 == Copilot_sessionStart(a, event)
        a2 == [a1 EXCEPT !.models = Copilot_collectModels(Coalesce(type, JStr(<<>>)), data, @)]
        ts == Copilot_extractTimestampMs(event)
        inDay == inDayOf(ts, dayStartMs, dayEndMs)
        a3 == [a2 EXCEPT !.dayEarliest = Min(@, ts.v), !.dayLatest = Max(@, ts.v)]
        a4 == IF data.t = "object"
              THEN [a3 EXCEPT !.tokens = Copilot_visitUsageRecord(data, @, 0)]
              ELSE a3
    IN  IF ~inDay THEN a2
        ELSE IF type = JStr(EventType.user_message) THEN Copilot_userMessage(a4, ts.v, data)
        ELSE IF type = JStr(EventType.assistant_message) THEN Copilot_assistantMessage(a4, ts.v, data)
        ELSE IF type \in {JStr(EventType.assistant_turn_start), JStr(EventType.assistant_turn_end)}
             THEN Copilot_pushActivity(a4, ts.v)
        ELSE IF type \in {JStr(EventType.tool_execution_start), JStr(EventType.tool_execution_complete)}
             THEN Copilot_toolExecution(a4, ts.v, data)
        ELSE a4

----------------------------------------------------------------------------
(* The end of parseSessionFile, the same in both classes *)

\* const MAX_EVENT_GAP_MS = 5 * 60 * 1000
MAX_EVENT_GAP_MS == 5 * 60 * 1000

RECURSIVE insertAscending(_, _)
insertAscending(sorted, x) ==
    IF sorted = <<>> THEN <<x>>
    ELSE IF x < sorted[1] THEN <<x>> \o sorted
    ELSE <<sorted[1]>> \o insertAscending(Tail(sorted), x)

\* [...activityTimestamps].sort((a, b) => a - b)
RECURSIVE sortAscending(_)
sortAscending(seq) ==
    IF seq = <<>> THEN <<>>
    ELSE insertAscending(sortAscending(SubSeq(seq, 1, Len(seq) - 1)), seq[Len(seq)])

\* the loop adding Math.min(gap, MAX_EVENT_GAP_MS) for each positive gap, from index i on
RECURSIVE sumGaps(_, _)
sumGaps(sortedActivity, i) ==
    IF i > Len(sortedActivity) THEN 0
    ELSE LET gap == sortedActivity[i] - sortedActivity[i - 1]
         IN  (IF gap > 0 THEN Min(gap, MAX_EVENT_GAP_MS) ELSE 0) + sumGaps(sortedActivity, i + 1)

\* variant: a gap counts in full, without the cap
durationOf_Uncapped(activityTimestamps) ==
    LET sorted == sortAscending(activityTimestamps)
    IN  IF sorted = <<>> THEN 0 ELSE sorted[Len(sorted)] - sorted[1]

\* variant: the timestamps are summed in log order, without the sort
durationOf_Unsorted(activityTimestamps) == sumGaps(activityTimestamps, 2)

durationOf(activityTimestamps) == sumGaps(sortAscending(activityTimestamps), 2)

\* variant: the summaries are returned as pushed, repeats included
dedupe_KeepsRepeats(seq) == seq

\* [...new Set(toolCallSummaries)]
RECURSIVE dedupe(_)
dedupe(seq) ==
    IF seq = <<>> THEN <<>>
    ELSE LET front == dedupe(SubSeq(seq, 1, Len(seq) - 1))
         IN  SetAdd(front, seq[Len(seq)])

\* process.env.DEVDAY_DIGEST_MAX_CHARS of the run: unset
DigestMaxCharsEnv == JUndefined

\* resolvePositiveInteger: parseInt of a set, non-blank, numeric value, else the fallback
resolvePositiveInteger(value, fallback) ==
    IF value.t = "undefined" THEN fallback
    ELSE IF value.t = "numstring" THEN value.v
    ELSE fallback

\* tokens.total = input + output + reasoning + cacheRead + cacheWrite
withTotal(tokens) ==
    [tokens EXCEPT !.total =
        tokens.input + tokens.output + tokens.reasoning + tokens.cacheRead + tokens.cacheWrite]

\* the value parseSessionFile returns: null, or the Session
\* (costUsd is priced by cost.ts, which is not among the sources, and is left out)
sessionOf(a, tool, dayStartMs, dayEndMs) ==
    IF a.dayEarliest = Infinity \/ a.dayLatest = 0 - Infinity THEN JNull
    ELSE [ t |-> "session",
           id |-> a.sessionId,
           tool |-> tool,
           projectPath |-> a.projectPath,
           projectName |-> a.projectName,
           title |-> a.title,
           startedAt |-> Max(dayStartMs, a.dayEarliest),
           endedAt |-> Min(dayEndMs, a.dayLatest),
           durationMs |-> durationOf(a.activityTimestamps),
           messageCount |-> a.userMessageCount + a.assistantMessageCount,
           userMessageCount |-> a.userMessageCount,
           assistantMessageCount |-> a.assistantMessageCount,
           summary |-> IF tool = "copilot" THEN a.title ELSE JNull,
           topics |-> IF Truthy(a.title) THEN <<a.title>> ELSE <<>>,
           tokens |-> withTotal(a.tokens),
           models |-> a.models,
           filesTouched |-> a.filesTouched,
           conversationDigest |->
               truncateConversationDigest(
                   join(a.digestParts, BlankLine),
                   resolvePositiveInteger(DigestMaxCharsEnv, DEFAULT_DIGEST_MAX_CHARS)),
           toolCallSummaries |-> dedupe(a.toolCallSummaries) ]

----------------------------------------------------------------------------
(* The log units: parsed lines, by family *)

\* getSessions(date): dayStart and dayEnd of the requested day, here 1970-01-02 (UTC)
DayStartMs == 86400000
DayEndMs == DayStartMs + 86399999

\* instants of the log lines
T0 == DayStartMs
T1 == T0 + 1000
T2 == T1 + 400000
Before == DayStartMs - 1
After == DayEndMs + 1

\* a line that is blank or that JSON.parse rejects
Unparsable == [t |-> "unparsable"]


\* a Codex line {timestamp, type, payload}
CodexLine(type, ts, payload) ==
    JObj((Key.type :> JStr(type)) @@ (Key.timestamp :> ts) @@ (Key.payload :> JObj(payload)))
CodexLineNoTimestamp(type, payload) ==
    JObj((Key.type :> JStr(type)) @@ (Key.payload :> JObj(payload)))

\* a Copilot event {type, timestamp, data}
CopilotEvent(type, ts, data) ==
    JObj((Key.type :> JStr(type)) @@ (Key.timestamp :> ts) @@ (Key.data :> JObj(data)))
CopilotEventNoTimestamp(type, data) ==
    JObj((Key.type :> JStr(type)) @@ (Key.data :> JObj(data)))

\* payloads of Codex lines
CodexPayload ==
    [
      sessionMeta |->
          (Key.id :> JStr(Sample.id)) @@ (Key.cwd :> JStr(Sample.cwd)),
      turnContext |->
          (Key.model :> JStr(Sample.model)),
      userMessage |->
          (Key.type :> JStr(Key.user_message)) @@ (Key.message :> JStr(Text.hi)),
      assistantItem |->
          (Key.type :> JStr(Key.message)) @@ (Key.role :> JStr(Key.assistant))
          @@ (Key.content :> JArr(<<JObj((Key.type :> JStr(Key.text)) @@ (Key.text :> JStr(Text.filler)))>>)),
      userItem |->
          (Key.type :> JStr(Key.message)) @@ (Key.role :> JStr(Key.user))
          @@ (Key.content :> JArr(<<JObj((Key.type :> JStr(Key.text)) @@ (Key.text :> JStr(Text.hi)))>>)),
      agentMessage |->
          (Key.type :> JStr(Key.agent_message)) @@ (Key.message :> JStr(Text.filler)),
      functionCall |->
          (Key.type :> JStr(Key.function_call)) @@ (Key.name :> JStr(Sample.view))
          @@ (Key.arguments :> JJson(JObj((Key.path :> JStr(Sample.path))))),
      \* the token_count event of the Codex test log
      tokenCount |->
          (Key.type :> JStr(Key.token_count))
          @@ (Key.info :> JObj((Key.last_token_usage :> JObj(
          (Key.input_tokens :> JNum(100)) @@ (Key.output_tokens :> JNum(50))
          @@ (Key.reasoning_output_tokens :> JNum(10)) @@ (Key.cached_input_tokens :> JNum(20)))))),
      \* last_token_usage directly in the payload
      tokenCountFlat |->
          (Key.type :> JStr(Key.token_count))
          @@ (Key.last_token_usage :> JObj(
          (Key.input_tokens :> JNum(7)) @@ (Key.cache_creation_input_tokens :> JNum(3)))),
      \* a token_count event that carries the running total only
      tokenCountTotalOnly |->
          (Key.type :> JStr(Key.token_count))
          @@ (Key.info :> JObj((Key.total_token_usage :> JObj((Key.input_tokens :> JNum(9))))))
    ]


\* data of Copilot events
CopilotData ==
    [
      sessionStart |->
          (Key.sessionId :> JStr(Sample.id)) @@ (Key.context :> JObj((Key.cwd :> JStr(Sample.cwd)))),
      modelChange |->
          (Key.newModel :> JStr(Sample.model)),
      userMessage |->
          (Key.content :> JStr(Text.hi)),
      assistantMessage |->
          (Key.content :> JStr(Text.filler))
          @@ (Key.toolRequests :> JArr(<<JObj(
          (Key.name :> JStr(Sample.view)) @@ (Key.arguments :> JObj((Key.path :> JStr(Sample.path)))))>>)),
      toolExecution |->
          (Key.toolName :> JStr(Sample.view)) @@ (Key.arguments :> JObj((Key.path :> JStr(Sample.path)))),
      empty |->
          <<>>,
      \* usage at the top of data
      usageFlat |->
          (Key.input_tokens :> JNum(100)) @@ (Key.output_tokens :> JNum(50)),
      \* usage in one nested container
      usageNested |->
          (Key.usage :> JObj((Key.prompt_tokens :> JNum(7)) @@ (Key.completion_tokens :> JNum(3))
          @@ (Key.cached_tokens :> JNum(2)))),
      \* the same report in two sibling containers
      usageSiblings |->
          (Key.usage :> JObj((Key.inputTokens :> JNum(5)) @@ (Key.outputTokens :> JNum(1))))
          @@ (Key.tokenUsage :> JObj((Key.inputTokens :> JNum(5)) @@ (Key.outputTokens :> JNum(1))))
    ]


\* the lines a Codex session file is written from, by corpus
CodexLines ==
    [
      timing |->
          { CodexLine(Key.event_msg, JDate(ts), CodexPayload.userMessage) : ts \in {T0, T1, T2, Before} }
            \cup { CodexLine(Key.response_item, JDate(ts), CodexPayload.functionCall) : ts \in {T0, T2} }
            \cup { CodexLine(Key.turn_context, JDate(T1), CodexPayload.turnContext) },
      day |->
          { CodexLine(Key.session_meta, JDate(ts), CodexPayload.sessionMeta) : ts \in {Before, T1} }
            \cup { CodexLine(Key.turn_context, JDate(ts), CodexPayload.turnContext) : ts \in {Before, T1} }
            \cup { CodexLine(Key.event_msg, JDate(ts), CodexPayload.tokenCount) : ts \in {After, T1} }
            \cup { CodexLine(Key.event_msg, JDate(ts), CodexPayload.userMessage) : ts \in {Before, DayEndMs} }
            \cup { CodexLine(Key.response_item, JDate(ts), CodexPayload.functionCall) : ts \in {Before, T0} }
            \cup { CodexLine(Key.response_item, JDate(After), CodexPayload.assistantItem),
                   CodexLineNoTimestamp(Key.event_msg, CodexPayload.userMessage),
                   CodexLine(Key.event_msg, JStr(Text.hi), CodexPayload.userMessage),
                   Unparsable },
      tokens |->
          { CodexLine(Key.event_msg, JDate(ts), CodexPayload.tokenCount) : ts \in {T0, Before} }
            \cup { CodexLine(Key.event_msg, JDate(T1), CodexPayload.tokenCountFlat),
                   CodexLine(Key.event_msg, JDate(T1), CodexPayload.tokenCountTotalOnly),
                   CodexLine(Key.event_msg, JDate(T2), CodexPayload.userMessage),
                   CodexLine(Key.turn_context, JDate(T0), CodexPayload.turnContext) },
      messages |->
          { CodexLine(Key.response_item, JDate(ts), CodexPayload.userItem) : ts \in {T0, After} }
            \cup { CodexLine(Key.response_item, JDate(ts), CodexPayload.assistantItem) : ts \in {T1, Before} }
            \cup { CodexLine(Key.event_msg, JDate(T0), CodexPayload.userMessage),
                   CodexLine(Key.event_msg, JDate(T1), CodexPayload.agentMessage) },
      \* lines that are no JSON, or JSON that is no object: null, 5, []
      malformed |->
          { CodexLine(Key.event_msg, JDate(T0), CodexPayload.userMessage),
            CodexLine(Key.response_item, JDate(T1), CodexPayload.assistantItem),
            Unparsable, JNull, JNum(5), JArr(<<>>) },
      \* user messages that are envelopes, need collapsing or cutting, or are blank
      titles |->
          { CodexLine(Key.event_msg, JDate(T0),
                      (Key.type :> JStr(Key.user_message)) @@ (Key.message :> JStr(text))) :
              text \in {Text.envelope, Text.agents, Text.spaced, Text.longPrompt, Text.blank} }
            \cup { CodexLine(Key.response_item, JDate(T1), CodexPayload.userItem),
                   CodexLine(Key.event_msg, JDate(Before), CodexPayload.userMessage) },
      \* tool calls: arguments with a path, a command, a pattern, several of them, none
      \* of them, a URL or a working directory, and an input that is plain text
      tools |->
          LET toolLine(args) == (Key.type :> JStr(Key.function_call))
                              @@ (Key.name :> JStr(Sample.view))
                              @@ (Key.arguments :> JJson(JObj(args)))
          IN  { CodexLine(Key.response_item, JDate(ts), CodexPayload.functionCall) : ts \in {T0, Before} }
                \cup { CodexLine(Key.response_item, JDate(T1), toolLine(args)) :
                         args \in { (Key.path :> JStr(Sample.path)) @@ (Key.command :> JStr(Text.hi))
                                      @@ (Key.pattern :> JStr(Text.ok)),
                                    (Key.command :> JStr(Sample.longCommand)) @@ (Key.pattern :> JStr(Text.ok)),
                                    (Key.pattern :> JStr(Text.ok)),
                                    (Key.path :> JStr(Sample.url)),
                                    (Key.cwd :> JStr(Sample.cwd)) @@ (Key.text :> JStr(Sample.path))
                                      @@ (Key.file :> JStr(Text.hi)) } }
                \cup { CodexLine(Key.response_item, JDate(T1),
                                 (Key.type :> JStr(Key.function_call))
                                 @@ (Key.arguments :> JJson(JObj(<<>>)))),
                       CodexLine(Key.response_item, JDate(T1),
                                 (Key.type :> JStr(Key.custom_tool_call))
                                 @@ (Key.name :> JStr(Sample.view))
                                 @@ (Key.input :> JStr(Text.hi))) }
    ]

\* the events a Copilot events.jsonl is written from, by corpus
CopilotLines ==
    [
      timing |->
          { CopilotEvent(EventType.user_message, JDate(ts), CopilotData.userMessage) : ts \in {T0, T1, T2, Before} }
            \cup { CopilotEvent(EventType.assistant_turn_start, JDate(T0), CopilotData.empty),
                   CopilotEvent(EventType.assistant_turn_end, JDate(T2), CopilotData.empty),
                   CopilotEvent(EventType.tool_execution_start, JDate(T1), CopilotData.toolExecution) },
      day |->
          { CopilotEvent(EventType.session_start, JDate(ts), CopilotData.sessionStart) : ts \in {Before, T1} }
            \cup { CopilotEvent(EventType.session_model_change, JDate(ts), CopilotData.modelChange) : ts \in {Before, T1} }
            \cup { CopilotEvent(EventType.assistant_usage, JDate(ts), CopilotData.usageFlat) : ts \in {After, T1} }
            \cup { CopilotEvent(EventType.user_message, JDate(ts), CopilotData.userMessage) : ts \in {Before, DayEndMs} }
            \cup { CopilotEvent(EventType.tool_execution_start, JDate(ts), CopilotData.toolExecution) : ts \in {Before, T0} }
            \cup { CopilotEvent(EventType.assistant_message, JDate(After), CopilotData.assistantMessage),
                   CopilotEventNoTimestamp(EventType.user_message, CopilotData.userMessage),
                   CopilotEvent(EventType.user_message, JStr(Text.hi), CopilotData.userMessage),
                   Unparsable },
      tokens |->
          { CopilotEvent(EventType.assistant_usage, JDate(ts), CopilotData.usageFlat) : ts \in {T0, Before} }
            \cup { CopilotEvent(EventType.assistant_usage, JDate(T1), CopilotData.usageNested),
                   CopilotEvent(EventType.assistant_usage, JDate(T1), CopilotData.usageSiblings),
                   CopilotEvent(EventType.user_message, JDate(T2), CopilotData.userMessage),
                   CopilotEvent(EventType.session_model_change, JDate(T0), CopilotData.modelChange) },
      messages |->
          { CopilotEvent(EventType.user_message, JDate(ts), CopilotData.userMessage) : ts \in {T0, After} }
            \cup { CopilotEvent(EventType.assistant_message, JDate(ts), CopilotData.assistantMessage) : ts \in {T1, Before} }
            \cup { CopilotEvent(EventType.tool_execution_start, JDate(T1), CopilotData.toolExecution),
                   CopilotEvent(EventType.assistant_usage, JDate(T1), CopilotData.usageFlat) },
      \* lines that are no JSON, or JSON that is no object: null, 5, []
      malformed |->
          { CopilotEvent(EventType.user_message, JDate(T0), CopilotData.userMessage),
            CopilotEvent(EventType.assistant_message, JDate(T1), CopilotData.assistantMessage),
            Unparsable, JNull, JNum(5), JArr(<<>>) },
      \* user messages that are envelopes, need collapsing or cutting, or are blank,
      \* and a session.start that carries a summary
      titles |->
          { CopilotEvent(EventType.user_message, JDate(T0), (Key.content :> JStr(text))) :
              text \in {Text.envelope, Text.agents, Text.spaced, Text.longPrompt, Text.blank} }
            \cup { CopilotEvent(EventType.user_message, JDate(Before), CopilotData.userMessage),
                   CopilotEvent(EventType.session_start, JDate(T1),
                                (Key.summary :> JStr(Text.ok))) },
      \* tool calls: arguments with a path, a command, a pattern, several of them, none
      \* of them, a URL, a working directory or a git root, an input that is plain
      \* text, and a message with a tool request
      tools |->
          LET toolLine(args) == (Key.toolName :> JStr(Sample.view)) @@ (Key.arguments :> args)
          IN  { CopilotEvent(EventType.tool_execution_start, JDate(ts), CopilotData.toolExecution) :
                  ts \in {T0, Before} }
                \cup { CopilotEvent(EventType.tool_execution_start, JDate(T1), toolLine(JObj(args))) :
                         args \in { (Key.path :> JStr(Sample.path)) @@ (Key.command :> JStr(Text.hi))
                                      @@ (Key.pattern :> JStr(Text.ok)),
                                    (Key.command :> JStr(Sample.longCommand)) @@ (Key.pattern :> JStr(Text.ok)),
                                    (Key.pattern :> JStr(Text.ok)),
                                    (Key.path :> JStr(Sample.url)),
                                    (Key.cwd :> JStr(Sample.cwd)) @@ (Key.text :> JStr(Sample.path))
                                      @@ (Key.file :> JStr(Text.hi)),
                                    (Key.gitRoot :> JStr(Sample.path)) } }
                \cup { CopilotEvent(EventType.tool_execution_complete, JDate(T1),
                                    (Key.arguments :> JObj(<<>>))),
                       CopilotEvent(EventType.tool_execution_start, JDate(T1), toolLine(JStr(Text.hi))),
                       CopilotEvent(EventType.assistant_message, JDate(T1), CopilotData.assistantMessage) }
    ]

Parsers == {"codex", "copilot"}
Corpora == {"timing", "day", "tokens", "messages", "malformed", "titles", "tools"}

Lines(p, c) == IF p = "codex" THEN CodexLines[c] ELSE CopilotLines[c]

\* the workspace.yaml of the unit: absent
NoWorkspace == [cwd |-> JNull, gitRoot |-> JNull, summary |-> JNull]

----------------------------------------------------------------------------
(* Session summaries (src/unnamed/part_002): chunking of the digest *)

\* const MAX_SUMMARY_CHUNKS = 12
MAX_SUMMARY_CHUNKS == 12

\* the lookahead (?=\[(?:User|Assistant)\]:) of the split pattern
atFragmentTag(s) ==
    \/ startsWith(s, SubSeq(UserTag, 1, Len(UserTag) - 1))
    \/ startsWith(s, SubSeq(AssistantTag, 1, Len(AssistantTag) - 1))

\* the positions where the split pattern \n\n(?=\[(?:User|Assistant)\]:) matches
fragmentBoundaries(s) ==
    { i \in 1..(Len(s) - 1) :
        /\ s[i] = "\n"
        /\ s[i + 1] = "\n"
        /\ atFragmentTag(SubSeq(s, i + 2, Len(s))) }

\* digest.split(/\n\n(?=\[(?:User|Assistant)\]:)/): the pieces of s from index from
\* on; piece k runs from behind the (k-1)-th match to before the k-th
splitAtFragments(s, from) ==
    LET ahead == { i \in fragmentBoundaries(s) : i >= from }
        nth(k) == CHOOSE i \in ahead : Cardinality({ j \in ahead : j < i }) = k - 1
    IN  [k \in 1..(Cardinality(ahead) + 1) |->
           SubSeq(s, IF k = 1 THEN from ELSE nth(k - 1) + 2,
                     IF k = Cardinality(ahead) + 1 THEN Len(s) ELSE nth(k) - 1)]

\* .map((entry) => entry.trim()).filter(Boolean)
RECURSIVE trimmedNonEmpty(_)
trimmedNonEmpty(pieces) ==
    IF pieces = <<>> THEN <<>>
    ELSE (IF trim(pieces[1]) = <<>> THEN <<>> ELSE <<trim(pieces[1])>>)
           \o trimmedNonEmpty(Tail(pieces))

\* the loop over entries: st.chunks and st.current after the entries from index i on
RECURSIVE packEntries(_, _, _, _)
packEntries(entries, i, st, targetChars) ==
    IF i > Len(entries) THEN st
    ELSE LET entry == entries[i]
             candidate == IF st.current # <<>> THEN st.current \o BlankLine \o entry ELSE entry
         IN  IF Len(candidate) > targetChars /\ st.current # <<>>
             THEN packEntries(entries, i + 1,
                      [chunks |-> Append(st.chunks, st.current), current |-> entry], targetChars)
             ELSE packEntries(entries, i + 1,
                      [chunks |-> st.chunks, current |-> candidate], targetChars)

\* the loop of rebalanceChunks: groups of groupSize adjacent chunks from index i on
RECURSIVE groupChunks(_, _, _)
groupChunks(chunks, i, groupSize) ==
    IF i > Len(chunks) THEN <<>>
    ELSE <<join(SubSeq(chunks, i, Min(i + groupSize - 1, Len(chunks))), BlankLine)>>
           \o groupChunks(chunks, i + groupSize, groupSize)

rebalanceChunks(chunks, maxChunks) ==
    IF Len(chunks) <= maxChunks THEN chunks
    ELSE \* Math.ceil(chunks.length / maxChunks)
         groupChunks(chunks, 1, (Len(chunks) + maxChunks - 1) \div maxChunks)

splitDigestIntoChunks(digestText, targetChars, maxChunks) ==
    IF Len(digestText) <= targetChars THEN <<digestText>>
    ELSE LET entries == trimmedNonEmpty(splitAtFragments(digestText, 1))
             packed == packEntries(entries, 1, [chunks |-> <<>>, current |-> <<>>], targetChars)
             chunks == IF packed.current # <<>> THEN Append(packed.chunks, packed.current)
                       ELSE packed.chunks
         IN  IF entries = <<>> THEN <<digestText>>
             ELSE IF Len(chunks) <= maxChunks THEN chunks
             ELSE rebalanceChunks(chunks, maxChunks)

\* the digests that are split: joined from up to MaxEntries of these fragments
SplitInputs ==
    UNION { [1..n -> { UserFragment(Text.hi), AssistantFragment(Text.ok),
                       AssistantFragment(Text.filler), UserFragment(Text.withLineEnd),
                       AssistantFragment(Text.quotesTranscript) }] : n \in 1..MaxEntries }

----------------------------------------------------------------------------
(* Session summaries (src/unnamed/part_002): buildSessionSummaries, the      *)
(* summarizer calls it awaits, and the deterministic fallback summary        *)

\* const LLM_TIMEOUT_MS = 25_000
LLM_TIMEOUT_MS == 25000
\* const DEFAULT_SUMMARY_CHUNK_CHARS = 7_500
DEFAULT_SUMMARY_CHUNK_CHARS == 7500
\* Number.MAX_SAFE_INTEGER: larger than the length of any digest
MAX_SAFE_INTEGER == 2147483647

\* the fixed sentences of normalizeSummary, summarizeSessionWithLlm,
\* buildFallbackSessionSummary and truncateSentence
Phrase ==
    [
      noTranscript |-> <<"N", "o", " ", "t", "r", "a", "n", "s", "c", "r",
                         "i", "p", "t", " ", "t", "e", "x", "t", " ", "a",
                         "v", "a", "i", "l", "a", "b", "l", "e", ".">>,
      defaultSummary |-> <<"W", "e", " ", "c", "o", "m", "p", "l", "e",
                           "t", "e", "d", " ", "f", "o", "c", "u", "s",
                           "e", "d", " ", "d", "e", "v", "e", "l", "o",
                           "p", "m", "e", "n", "t", " ", "w", "o", "r",
                           "k", " ", "i", "n", " ", "t", "h", "i", "s",
                           " ", "s", "e", "s", "s", "i", "o", "n", ".">>,
      workedOn |-> <<"I", "n", " ", "t", "h", "i", "s", " ", "s", "e", "s",
                     "s", "i", "o", "n", " ", "w", "e", " ", "w", "o", "r",
                     "k", "e", "d", " ", "o", "n", " ">>,
      a |-> <<"a", " ">>,
      task |-> <<" ", "t", "a", "s", "k">>,
      in |-> <<" ", "i", "n", " ">>,
      startedBy |-> <<"W", "e", " ", "s", "t", "a", "r", "t", "e", "d",
                      " ", "b", "y", " ", "f", "o", "c", "u", "s", "i",
                      "n", "g", " ", "o", "n", " ">>,
      byTheEnd |-> <<"B", "y", " ", "t", "h", "e", " ", "e", "n", "d", ",",
                     " ", "w", "e", " ", "h", "a", "d", " ", "r", "e", "a",
                     "c", "h", "e", "d", " ", "a", " ", "s", "t", "a", "b",
                     "l", "e", " ", "o", "u", "t", "c", "o", "m", "e", ":",
                     " ">>,
      ellipsis |-> <<".", ".", ".">>
    ]

\* resolveSummaryChunkChars(options.chunkChars); DEVDAY_SESSION_SUMMARY_CHUNK_CHARS is unset
resolveSummaryChunkChars(input) ==
    IF input.t = "number"
    THEN IF input.v <= 0 THEN MAX_SAFE_INTEGER ELSE input.v
    ELSE DEFAULT_SUMMARY_CHUNK_CHARS

\* text.split('\n').map((line) => line.trimEnd()): line k runs from behind the
\* (k-1)-th line feed to before the k-th
trimEndLines(s) ==
    LET feeds == { i \in 1..Len(s) : s[i] = "\n" }
        nth(k) == CHOOSE i \in feeds : Cardinality({ j \in feeds : j < i }) = k - 1
    IN  [k \in 1..(Cardinality(feeds) + 1) |->
           trimEnd(SubSeq(s, IF k = 1 THEN 1 ELSE nth(k - 1) + 1,
                             IF k = Cardinality(feeds) + 1 THEN Len(s) ELSE nth(k) - 1))]

normalizeSummary(text) ==
    LET cleaned == trim(join(trimEndLines(text), <<"\n">>))
    IN  IF cleaned = <<>> THEN Phrase.defaultSummary ELSE cleaned

\* the matches of /\[Role\]:\s*([\s\S]*?)(?=\n\n\[(?:User|Assistant)\]:|$)/g in s from
\* index from on, each passed through sanitizeTranscriptMessage and kept when not
\* empty. The messages summarized here hold none of the blocks the sanitizer
\* removes, so what it does to them is .replace(/\s+/g, ' ').trim().
RECURSIVE roleMessages(_, _, _)
roleMessages(s, roleTag, from) ==
    LET starts == { p \in from..(Len(s) - Len(roleTag) + 1) :
                      SubSeq(s, p, p + Len(roleTag) - 1) = roleTag }
        start == CHOOSE p \in starts : \A q \in starts : p <= q
        rest == SubSeq(s, start + Len(roleTag), Len(s))
        first == start + Len(roleTag) + (Len(rest) - Len(trimStart(rest)))
        ends == { i \in fragmentBoundaries(s) : i >= first }
        end == IF ends = {} THEN Len(s) + 1
               ELSE CHOOSE i \in ends : \A j \in ends : i <= j
        sanitized == trim(collapseWhitespace(SubSeq(s, first, end - 1)))
    IN  IF starts = {} THEN <<>>
        ELSE (IF sanitized = <<>> THEN <<>> ELSE <<sanitized>>)
               \o roleMessages(s, roleTag, end)

\* extractMessageByRole: the empty string stands for null (both are falsy to the caller)
extractMessageByRole(digestText, roleTag, which) ==
    LET matches == roleMessages(digestText, SubSeq(roleTag, 1, Len(roleTag) - 1), 1)
    IN  IF digestText = <<>> \/ matches = <<>> THEN <<>>
        ELSE IF which = "first" THEN matches[1] ELSE matches[Len(matches)]

truncateSentence(value, maxLen) ==
    LET clean == trim(collapseWhitespace(value))
    IN  IF Len(clean) <= maxLen THEN clean
        ELSE SubSeq(clean, 1, maxLen - 3) \o Phrase.ellipsis

\* buildFallbackSessionSummary: the sessions summarized here touched no files and
\* called no tools, and no message holds a word looksLikeChallenge looks for
buildFallbackSessionSummary(s, projectName) ==
    LET firstUser == extractMessageByRole(s.conversationDigest, UserTag, "first")
        lastAssistant == extractMessageByRole(s.conversationDigest, AssistantTag, "last")
        subject == IF IsNullish(s.title)
                   THEN Phrase.a \o s.tool \o Phrase.task
                   ELSE s.title.v
    IN  join(<<Phrase.workedOn \o subject \o Phrase.in \o projectName \o <<".">>>>
               \o (IF firstUser = <<>> THEN <<>>
                   ELSE <<Phrase.startedBy \o truncateSentence(firstUser, 180) \o <<".">>>>)
               \o (IF lastAssistant = <<>> THEN <<>>
                   ELSE <<Phrase.byTheEnd \o truncateSentence(lastAssistant, 180) \o <<".">>>>),
             <<" ">>)

\* collectSessionContexts: [...project.sessions].sort by startedAt (a stable sort)
RECURSIVE collectSessionContexts(_)
collectSessionContexts(projectSessions) ==
    LET n == Len(projectSessions)
        least == CHOOSE i \in 1..n :
                    \A j \in 1..n :
                       \/ projectSessions[i].startedAt < projectSessions[j].startedAt
                       \/ projectSessions[i].startedAt = projectSessions[j].startedAt /\ i <= j
    IN  IF n = 0 THEN <<>>
        ELSE <<projectSessions[least]>>
               \o collectSessionContexts([k \in 1..(n - 1) |->
                     projectSessions[IF k < least THEN k ELSE k + 1]])

\* callSummarizer: the provider it sends the prompt to, "none" when it returns null
\* without a request
callSummarizer(cfg) ==
    IF cfg.preferredSummarizer = "anthropic" /\ Truthy(cfg.anthropicApiKey) THEN "anthropic"
    ELSE IF cfg.preferredSummarizer = "openai" /\ Truthy(cfg.openaiApiKey) THEN "openai"
    ELSE "none"

\* callAnthropic / callOpenAI once the body has arrived: res.json() and the reading
\* of the text, inside the try whose catch returns null; null when there is no text
responseText(provider, data) ==
    LET list == Get(data, IF provider = "anthropic" THEN "content" ELSE "choices")
        first == list.v[1]
        text == IF provider = "anthropic" THEN Get(first, "text")
                ELSE Get(Get(first, "message"), "content")
    IN  IF data = Unparsable THEN JNull
        ELSE IF list.t # "array" \/ list.v = <<>> THEN JNull
        ELSE IF text.t = "string" THEN text
        ELSE JNull

\* return text ? normalizeSummary(text) : null
responseSummary(text) ==
    IF Truthy(text) THEN JStr(normalizeSummary(text.v)) ELSE JNull

\* what a provider may answer to a prompt with status 200: a summary that names the
\* prompt it answers, a text of white space only, an empty text, an empty list, the
\* other provider's shape, a body that is no JSON, the JSON value null
ResponseBodies(provider, prompt) ==
    LET answer == <<"s", " ">> \o prompt.kind
                    \o [i \in 1..prompt.chunkIndex |-> "i"] \o <<" ", "\n">>
        shaped(p, text) ==
            IF p = "anthropic"
            THEN JObj([content |-> JArr(<<JObj([type |-> JStr(<<"t">>), text |-> JStr(text)])>>)])
            ELSE JObj([choices |-> JArr(<<JObj([message |-> JObj([content |-> JStr(text)])])>>)])
    IN  { shaped(provider, answer), shaped(provider, <<" ", "\n">>), shaped(provider, <<>>),
          shaped(IF provider = "anthropic" THEN "openai" ELSE "anthropic", answer),
          JObj([content |-> JArr(<<>>), choices |-> JArr(<<>>)]),
          Unparsable, JNull }

\* variant: when every chunk call has failed, returns null without the whole-digest call
summarizeSessionWithLlm_NoWholeDigestCall(r, result, conversationDigest, chunkChars, digestChunks) ==
    LET digestText == IF conversationDigest = <<>> THEN Phrase.noTranscript
                      ELSE conversationDigest
        collected == IF Truthy(result) THEN Append(r.chunkSummaries, result.v)
                     ELSE r.chunkSummaries
    IN  IF r.pc = "loop"
        THEN IF Len(digestText) <= chunkChars
             THEN [r EXCEPT !.pc = "single"]
             ELSE [r EXCEPT !.pc = "chunk", !.chunk = 1, !.chunkSummaries = <<>>,
                            !.digestChunks = digestChunks]
        ELSE IF r.pc \in {"single", "whole"}
        THEN [r EXCEPT !.pc = "return", !.returned = result]
        ELSE IF r.pc = "chunk" /\ r.chunk < Len(r.digestChunks)
        THEN [r EXCEPT !.chunk = @ + 1, !.chunkSummaries = collected]
        ELSE IF r.pc = "chunk"
        THEN IF collected = <<>> THEN [r EXCEPT !.pc = "return", !.returned = JNull]
             ELSE [r EXCEPT !.pc = "synthesis", !.chunkSummaries = collected]
        ELSE [r EXCEPT !.pc = "return",
                       !.returned = IF Truthy(result) THEN result
                                    ELSE JStr(join(r.chunkSummaries, BlankLine))]

\* variant: gives the session up at the first chunk call that fails
summarizeSessionWithLlm_StopsAtFailedChunk(r, result, conversationDigest, chunkChars, digestChunks) ==
    LET digestText == IF conversationDigest = <<>> THEN Phrase.noTranscript
                      ELSE conversationDigest
        collected == IF Truthy(result) THEN Append(r.chunkSummaries, result.v)
                     ELSE r.chunkSummaries
    IN  IF r.pc = "loop"
        THEN IF Len(digestText) <= chunkChars
             THEN [r EXCEPT !.pc = "single"]
             ELSE [r EXCEPT !.pc = "chunk", !.chunk = 1, !.chunkSummaries = <<>>,
                            !.digestChunks = digestChunks]
        ELSE IF r.pc \in {"single", "whole"}
        THEN [r EXCEPT !.pc = "return", !.returned = result]
        ELSE IF r.pc = "chunk" /\ ~Truthy(result)
        THEN [r EXCEPT !.pc = "return", !.returned = JNull]
        ELSE IF r.pc = "chunk" /\ r.chunk < Len(r.digestChunks)
        THEN [r EXCEPT !.chunk = @ + 1, !.chunkSummaries = collected]
        ELSE IF r.pc = "chunk"
        THEN [r EXCEPT !.pc = IF collected = <<>> THEN "whole" ELSE "synthesis",
                       !.chunkSummaries = collected]
        ELSE [r EXCEPT !.pc = "return",
                       !.returned = IF Truthy(result) THEN result
                                    ELSE JStr(join(r.chunkSummaries, BlankLine))]

\* summarizeSessionWithLlm from where it stands in r (entered from the loop, or past
\* the await that has just returned result) up to its next await or its return;
\* digestChunks is splitDigestIntoChunks(digest, chunkChars, MAX_SUMMARY_CHUNKS)
summarizeSessionWithLlm(r, result, conversationDigest, chunkChars, digestChunks) ==
    LET digestText == IF conversationDigest = <<>> THEN Phrase.noTranscript
                      ELSE conversationDigest
        collected == IF Truthy(result) THEN Append(r.chunkSummaries, result.v)
                     ELSE r.chunkSummaries
    IN  IF r.pc = "loop"
        THEN IF Len(digestText) <= chunkChars
             THEN [r EXCEPT !.pc = "single"]
             ELSE [r EXCEPT !.pc = "chunk", !.chunk = 1, !.chunkSummaries = <<>>,
                            !.digestChunks = digestChunks]
        ELSE IF r.pc \in {"single", "whole"}
        THEN [r EXCEPT !.pc = "return", !.returned = result]
        ELSE IF r.pc = "chunk" /\ r.chunk < Len(r.digestChunks)
        THEN [r EXCEPT !.chunk = @ + 1, !.chunkSummaries = collected]
        ELSE IF r.pc = "chunk"
        THEN [r EXCEPT !.pc = IF collected = <<>> THEN "whole" ELSE "synthesis",
                       !.chunkSummaries = collected]
        ELSE [r EXCEPT !.pc = "return",
                       !.returned = IF Truthy(result) THEN result
                                    ELSE JStr(join(r.chunkSummaries, BlankLine))]

\* the prompt summarizeSessionWithLlm hands to callSummarizer where it stands in r:
\* buildSessionPrompt, buildChunkSummaryPrompt or buildChunkSynthesisPrompt, by the
\* parts that differ from call to call
promptOf(r, conversationDigest) ==
    IF r.pc = "chunk"
    THEN [kind |-> <<"c">>, chunkIndex |-> r.chunk, totalChunks |-> Len(r.digestChunks),
          text |-> r.digestChunks[r.chunk]]
    ELSE IF r.pc = "synthesis"
    THEN [kind |-> <<"y">>, chunkIndex |-> 0, totalChunks |-> Len(r.digestChunks),
          text |-> join(r.chunkSummaries, BlankLine)]
    ELSE [kind |-> <<"w">>, chunkIndex |-> 0, totalChunks |-> 0,
          text |-> IF conversationDigest = <<>> THEN Phrase.noTranscript
                   ELSE conversationDigest]

\* the variables of the summary pipeline are not in use
SplitIdle == split = [pc |-> "idle"]
SummarizeIdle ==
    /\ config = JNull
    /\ options = JNull
    /\ recap = <<>>
    /\ contexts = <<>>
    /\ run = [pc |-> "idle"]
    /\ call = [phase |-> "none"]
    /\ callLog = <<>>
    /\ summaries = <<>>
UnitsIdle == fs = [idle |-> TRUE] /\ scan = [pc |-> "idle"]
CliIdle == tally = [pc |-> "idle"] /\ collect = [pc |-> "idle"]
PipelineIdle == SplitIdle /\ SummarizeIdle /\ UnitsIdle /\ CliIdle

----------------------------------------------------------------------------
(* SpecDigest: a digest is assembled, truncated, truncated again, probed *)

\* the extractor is not run in SpecDigest
ParseIdle ==
    /\ parser = "none"
    /\ corpus = "none"
    /\ lines = <<>>
    /\ acc = [idle |-> TRUE]
    /\ pc = "idle"
    /\ session = JNull
    /\ sessions = <<>>

InitDigest ==
    /\ digestParts \in FragmentLists
    /\ digest = join(digestParts, BlankLine)
    /\ maxChars \in Budgets
    /\ truncated = <<>>
    /\ retruncated = <<>>
    /\ detected = FALSE
    /\ dpc = "input"
    /\ ParseIdle
    /\ PipelineIdle

Truncate ==
    /\ dpc = "input"
    /\ truncated' = truncateConversationDigest(digest, maxChars)
    /\ dpc' = "truncated"
    /\ UNCHANGED <<digestParts, digest, maxChars, retruncated, detected, parseVars, pipelineVars>>

Retruncate ==
    /\ dpc = "truncated"
    /\ retruncated' = truncateConversationDigest(truncated, maxChars)
    /\ dpc' = "again"
    /\ UNCHANGED <<digestParts, digest, maxChars, truncated, detected, parseVars, pipelineVars>>

Detect ==
    /\ dpc = "truncated"
    /\ detected' = isDigestTruncated(truncated)
    /\ dpc' = "detected"
    /\ UNCHANGED <<digestParts, digest, maxChars, truncated, retruncated, parseVars, pipelineVars>>

NextDigest == Truncate \/ Retruncate \/ Detect

SpecDigest == InitDigest /\ [][NextDigest]_vars

----------------------------------------------------------------------------
(* SpecParse: getSessions reads one unit line by line and returns *)

\* the truncator is not run on its own in SpecParse
DigestIdle ==
    /\ digestParts = <<>>
    /\ digest = <<>>
    /\ maxChars = 0
    /\ truncated = <<>>
    /\ retruncated = <<>>
    /\ detected = FALSE
    /\ dpc = "idle"

InitParse ==
    /\ parser \in Parsers
    /\ corpus \in Corpora
    /\ lines = <<>>
    /\ acc = IF parser = "codex" THEN Codex_initial(Sample.fileId)
             ELSE Copilot_initial(Sample.fileId, NoWorkspace)
    /\ pc = "reading"
    /\ session = JNull
    /\ sessions = <<>>
    /\ DigestIdle
    /\ PipelineIdle

\* CodexParser.parseSessionFile: the next line of the file. A line that is no JSON
\* is skipped by the catch around JSON.parse. The line null parses, to null, and
\* extractTimestampMs(parsed), outside that try, reads null.timestamp: a TypeError
\* that nothing in parseSessionFile or getSessions catches.
CodexReadLine ==
    /\ pc = "reading"
    /\ parser = "codex"
    /\ Len(lines) < MaxLines
    /\ \E line \in Lines(parser, corpus) :
         /\ lines' = Append(lines, line)
         /\ acc' = IF line = Unparsable \/ line = JNull THEN acc
                   ELSE Codex_line(acc, line, DayStartMs, DayEndMs)
         /\ pc' = IF line = JNull THEN "threw" ELSE pc
    /\ UNCHANGED <<parser, corpus, session, sessions, digestVars, pipelineVars>>

\* CopilotParser.parseSessionFile: the next line of the file. A line that is no JSON
\* is skipped by the catch around JSON.parse. The line null parses, to null, and
\* this.asRecord(event.data), outside that try, reads null.data: a TypeError that
\* nothing in parseSessionFile or getSessions catches.
CopilotReadLine ==
    /\ pc = "reading"
    /\ parser = "copilot"
    /\ Len(lines) < MaxLines
    /\ \E line \in Lines(parser, corpus) :
         /\ lines' = Append(lines, line)
         /\ acc' = IF line = Unparsable \/ line = JNull THEN acc
                   ELSE Copilot_line(acc, line, DayStartMs, DayEndMs)
         /\ pc' = IF line = JNull THEN "threw" ELSE pc
    /\ UNCHANGED <<parser, corpus, session, sessions, digestVars, pipelineVars>>

\* the file is exhausted: parseSessionFile returns, getSessions keeps a non-null Session
EndOfFile ==
    /\ pc = "reading"
    /\ session' = sessionOf(acc, parser, DayStartMs, DayEndMs)
    /\ sessions' = IF session'.t = "session" THEN <<session'>> ELSE <<>>
    /\ pc' = "done"
    /\ UNCHANGED <<parser, corpus, lines, acc, digestVars, pipelineVars>>

NextParse == CodexReadLine \/ CopilotReadLine \/ EndOfFile

SpecParse == InitParse /\ [][NextParse]_vars

----------------------------------------------------------------------------
(* SpecSplit: splitDigestIntoChunks applied to a digest joined from fragments *)

InitSplit ==
    /\ \E parts \in SplitInputs, targetChars \in {1, 12, 30},
          maxChunks \in {1, 2, MAX_SUMMARY_CHUNKS} :
          split = [pc |-> "input", parts |-> parts, digest |-> join(parts, BlankLine),
                   targetChars |-> targetChars, maxChunks |-> maxChunks, chunks |-> <<>>]
    /\ SummarizeIdle
    /\ UnitsIdle
    /\ ParseIdle
    /\ DigestIdle
    /\ CliIdle

SplitDigest ==
    /\ split.pc = "input"
    /\ split' = [split EXCEPT
                    !.pc = "split",
                    !.chunks = splitDigestIntoChunks(split.digest, split.targetChars,
                                                     split.maxChunks)]
    /\ UNCHANGED <<digestVars, parseVars, summaryVars, unitVars, cliVars>>

NextSplit == SplitDigest

SpecSplit == InitSplit /\ [][NextSplit]_vars

----------------------------------------------------------------------------
(* SpecSummarize: buildSessionSummaries over a recap, one await at a time.  *)
(* FairSummarize adds that the run is not left standing while a step is     *)
(* enabled: the event loop runs a ready continuation, the abort timer fires *)
(* when due, and the transport ends every request it has accepted.          *)

\* the length of one step of the clock
TickMs == LLM_TIMEOUT_MS \div 2

\* the session of project "p" with the given id, start and digest fragments
SummarySession(id, startedAt, parts) ==
    [id |-> id, tool |-> <<"c", "o", "d", "e", "x">>, title |-> JNull,
     startedAt |-> startedAt, conversationDigest |-> join(parts, BlankLine)]

\* the recaps summarized: sessions in the order the extractors returned them
Recaps ==
    LET short == <<UserFragment(Text.hi), AssistantFragment(Text.ok)>>
        long == short \o short \o <<UserFragment(Text.hi)>>
    IN  { <<SummarySession("a", 1, long)>>,
          <<SummarySession("a", 1, short), SummarySession("b", 2, long)>>,
          <<SummarySession("b", 2, short), SummarySession("a", 1, long)>>,
          <<SummarySession("a", 1, <<>>), SummarySession("b", 1, short)>> }

\* DevDayConfig, by the fields the summaries read
Configs ==
    { [preferredSummarizer |-> p, anthropicApiKey |-> k[1], openaiApiKey |-> k[2]] :
        p \in {"none", "anthropic", "openai"},
        k \in { <<JUndefined, JUndefined>>, <<JStr(<<"k">>), JUndefined>>,
                <<JUndefined, JStr(<<"k">>)>> } }

\* the options of buildSessionSummaries
Options ==
    [summarizeWithLlm : {JUndefined, [t |-> "boolean", v |-> FALSE]},
     chunkChars : {JUndefined, JNum(0), JNum(30)}]

\* one SessionContext of collectSessionContexts(recap), kept with what the loop
\* computes from the session alone, so that it is computed once for a run:
\* buildFallbackSessionSummary(session, project), and
\* splitDigestIntoChunks(digest, chunkChars, MAX_SUMMARY_CHUNKS) when the digest is
\* longer than chunkChars
contextOf(s, chunkChars) ==
    LET digestText == IF s.conversationDigest = <<>> THEN Phrase.noTranscript
                      ELSE s.conversationDigest
    IN  [session |-> s,
         fallback |-> buildFallbackSessionSummary(s, <<"p">>),
         digestChunks |-> IF Len(digestText) <= chunkChars THEN <<>>
                          ELSE splitDigestIntoChunks(digestText, chunkChars,
                                                     MAX_SUMMARY_CHUNKS)]

NoCall == [phase |-> "none"]

InitSummarize ==
    /\ config \in Configs
    /\ options \in Options
    /\ recap \in Recaps
    /\ contexts = [i \in 1..Len(recap) |->
                     contextOf(collectSessionContexts(recap)[i],
                               resolveSummaryChunkChars(options.chunkChars))]
    /\ run = [pc |-> "loop", index |-> 1, digestChunks |-> <<>>, chunk |-> 0,
              chunkSummaries |-> <<>>, returned |-> JUndefined]
    /\ call = NoCall
    /\ callLog = <<>>
    /\ summaries = <<>>
    /\ SplitIdle
    /\ UnitsIdle
    /\ ParseIdle
    /\ DigestIdle
    /\ CliIdle

\* the SessionContext the loop stands at
ctx == contexts[run.index]

\* the callSummarizer call summarizeSessionWithLlm awaits where it stands in r
awaited(r) ==
    [phase |-> IF callSummarizer(config) = "none" THEN "local" ELSE "fetch",
     ticks |-> 0, provider |-> callSummarizer(config),
     prompt |-> promptOf(r, ctx.session.conversationDigest)]

\* the end of the loop body: summaries.set(ctx.session.id, summary), then the next
\* context or the return
Store(r, llmSummary) ==
    /\ summaries' = (ctx.session.id :> (IF Truthy(llmSummary) THEN llmSummary.v
                                        ELSE ctx.fallback)) @@ summaries
    /\ run' = [r EXCEPT !.pc = IF r.index = Len(contexts) THEN "done" ELSE "loop",
                        !.index = IF r.index = Len(contexts) THEN @ ELSE @ + 1,
                        !.digestChunks = <<>>, !.chunk = 0, !.chunkSummaries = <<>>,
                        !.returned = JUndefined]
    /\ call' = NoCall

\* the awaited callSummarizer call returns result, having read the text received (null
\* when it read none); the pipeline runs on to its next await
Resume(result, received) ==
    LET r == summarizeSessionWithLlm(run, result, ctx.session.conversationDigest,
                                     resolveSummaryChunkChars(options.chunkChars),
                                     ctx.digestChunks)
    IN  /\ callLog' = Append(callLog, [session |-> ctx.session.id,
                                       kind |-> call.prompt.kind,
                                       chunkIndex |-> call.prompt.chunkIndex,
                                       external |-> call.phase # "local",
                                       received |-> received, result |-> result])
        /\ IF r.pc = "return" THEN Store(r, r.returned)
           ELSE run' = r /\ call' = awaited(r) /\ UNCHANGED summaries
        /\ UNCHANGED <<config, options, recap, contexts, split, unitVars, digestVars, parseVars, cliVars>>

\* one turn of for (const ctx of contexts), up to its first await
BeginSession ==
    /\ run.pc = "loop"
    /\ IF options.summarizeWithLlm.t # "boolean" /\ config.preferredSummarizer # "none"
       THEN LET r == summarizeSessionWithLlm(run, JNull, ctx.session.conversationDigest,
                                             resolveSummaryChunkChars(options.chunkChars),
                                             ctx.digestChunks)
            IN  run' = r /\ call' = awaited(r) /\ UNCHANGED summaries
       ELSE Store(run, JNull)
    /\ UNCHANGED <<config, options, recap, contexts, callLog, split, unitVars, digestVars, parseVars, cliVars>>

\* callSummarizer found no provider with a key and returned null without a request
ReturnWithoutRequest ==
    /\ call.phase = "local"
    /\ Resume(JNull, JNull)

\* time passes while a request is under way; once the abort timer is due it fires
\* before more time passes
Tick ==
    /\ call.phase \in {"fetch", "body"}
    /\ call.ticks < MaxTicks
    /\ call.phase = "fetch" => call.ticks * TickMs < LLM_TIMEOUT_MS
    /\ call' = [call EXCEPT !.ticks = @ + 1]
    /\ UNCHANGED <<config, options, recap, contexts, run, callLog, summaries, split,
                   unitVars, digestVars, parseVars, cliVars>>

\* await fetch(...) resolves with status 200; clearTimeout(timeout) follows at once
FetchResolves ==
    /\ call.phase = "fetch"
    /\ call' = [call EXCEPT !.phase = "body"]
    /\ UNCHANGED <<config, options, recap, contexts, run, callLog, summaries, split,
                   unitVars, digestVars, parseVars, cliVars>>

\* await fetch(...) resolves with a status that is not ok, or rejects
FetchFails ==
    /\ call.phase = "fetch"
    /\ Resume(JNull, JNull)

\* the timer set by setTimeout(() => controller.abort(), LLM_TIMEOUT_MS) fires
TimeoutAborts ==
    /\ call.phase = "fetch"
    /\ call.ticks * TickMs >= LLM_TIMEOUT_MS
    /\ Resume(JNull, JNull)

\* await res.json() settles: the body has arrived, or the connection broke
BodyArrives ==
    /\ call.phase = "body"
    /\ \E body \in ResponseBodies(call.provider, call.prompt) :
          \E text \in {responseText(call.provider, body)} :
             \E result \in {responseSummary(text)} : Resume(result, text)

NextSummarize ==
    \/ Tick
    \/ BeginSession
    \/ ReturnWithoutRequest
    \/ FetchResolves
    \/ FetchFails
    \/ TimeoutAborts
    \/ BodyArrives

SpecSummarize == InitSummarize /\ [][NextSummarize]_vars

FairSummarize == SpecSummarize /\ WF_vars(NextSummarize)

----------------------------------------------------------------------------
(* SpecUnits: isAvailable and getSessions of one parser over a root that may *)
(* be missing, with units that may be unreadable                             *)

\* the contents a unit's file may have: a user message of the day; the same with a
\* line that is no JSON; a message of the day before; a message and the line null;
\* a user message and a reply of 20 characters
UnitContents(p) ==
    LET message(ts) == IF p = "codex"
                       THEN CodexLine(Key.event_msg, JDate(ts), CodexPayload.userMessage)
                       ELSE CopilotEvent(EventType.user_message, JDate(ts),
                                         CopilotData.userMessage)
        reply == IF p = "codex"
                 THEN CodexLine(Key.event_msg, JDate(T1), CodexPayload.agentMessage)
                 ELSE CopilotEvent(EventType.assistant_message, JDate(T1),
                                   CopilotData.assistantMessage)
    IN  { <<message(T0)>>, <<message(T0), Unparsable>>, <<message(Before)>>,
          <<message(T0), JNull>>, <<message(T0), reply>> }

\* findSessionFiles / findSessionInputs: the units found, in the order of the listing
findSessionFiles(files) ==
    IF ~files.rootExists \/ ~files.listable THEN <<>>
    ELSE [i \in 1..Len(files.units) |-> i]

InitUnits ==
    /\ \E p \in Parsers, n \in 0..MaxUnits, rootExists \in BOOLEAN, listable \in BOOLEAN :
          /\ rootExists \/ (n = 0 /\ ~listable)
          /\ \E readable \in [1..n -> BOOLEAN], content \in [1..n -> UnitContents(p)],
                messageMaxChars \in {JUndefined, JNumStr(0), JNumStr(5), JStr(<<"x">>)} :
                fs = [rootExists |-> rootExists, listable |-> listable,
                      \* process.env.DEVDAY_DIGEST_MESSAGE_MAX_CHARS of the run
                      messageMaxChars |-> messageMaxChars,
                      units |-> [i \in 1..n |->
                                   [name |-> Sample.fileId \o [k \in 1..i |-> "i"],
                                    readable |-> readable[i], content |-> content[i]]]]
          /\ scan = [pc |-> "start", parser |-> p, available |-> JUndefined,
                     files |-> <<>>, index |-> 0, line |-> 0, acc |-> JNull,
                     sessions |-> <<>>]
    /\ SplitIdle
    /\ SummarizeIdle
    /\ ParseIdle
    /\ DigestIdle
    /\ CliIdle

\* the unit the loop of getSessions stands at
unit == fs.units[scan.files[scan.index]]

\* isAvailable(): existsSync(root)
IsAvailable ==
    /\ scan.pc = "start"
    /\ scan.available = JUndefined
    /\ scan' = [scan EXCEPT !.available = [t |-> "boolean", v |-> fs.rootExists]]
    /\ UNCHANGED <<fs, split, summaryVars, digestVars, parseVars, cliVars>>

\* getSessions(date) up to its loop: the units are looked up
GetSessions ==
    /\ scan.pc = "start"
    /\ scan' = [scan EXCEPT !.files = findSessionFiles(fs), !.index = 1,
                            !.pc = IF findSessionFiles(fs) = <<>> THEN "returned"
                                   ELSE "open"]
    /\ UNCHANGED <<fs, split, summaryVars, digestVars, parseVars, cliVars>>

\* parseSessionFile is entered for the next unit: readFileSync throws and null is
\* returned, which getSessions does not push, or the locals are set up
OpenUnit ==
    /\ scan.pc = "open"
    /\ scan' = IF unit.readable
               THEN [scan EXCEPT !.pc = "lines", !.line = 1,
                                 !.acc = IF scan.parser = "codex"
                                         THEN Codex_initial(unit.name)
                                         ELSE Copilot_initial(unit.name, NoWorkspace)]
               ELSE [scan EXCEPT !.index = @ + 1,
                                 !.pc = IF scan.index = Len(scan.files) THEN "returned"
                                        ELSE "open"]
    /\ UNCHANGED <<fs, split, summaryVars, digestVars, parseVars, cliVars>>

\* parseSessionFile reads the next line of the unit, as CodexReadLine and
\* CopilotReadLine do: a line that is no JSON is skipped, the line null throws
ReadUnitLine ==
    /\ scan.pc = "lines"
    /\ scan.line <= Len(unit.content)
    /\ LET line == unit.content[scan.line]
       IN  scan' = IF line = JNull THEN [scan EXCEPT !.pc = "threw"]
                   ELSE [scan EXCEPT
                           !.line = @ + 1,
                           !.acc = IF line = Unparsable THEN @
                                   ELSE IF scan.parser = "codex"
                                   THEN Codex_line(@, line, DayStartMs, DayEndMs)
                                   ELSE Copilot_line(@, line, DayStartMs, DayEndMs)]
    /\ UNCHANGED <<fs, split, summaryVars, digestVars, parseVars, cliVars>>

\* the unit is exhausted: parseSessionFile returns, getSessions pushes a Session that
\* is not null and goes on to the next unit, or returns after the last
CloseUnit ==
    /\ scan.pc = "lines"
    /\ scan.line > Len(unit.content)
    /\ LET parsed == sessionOf(scan.acc, scan.parser, DayStartMs, DayEndMs)
       IN  scan' = [scan EXCEPT
                      !.sessions = IF parsed = JNull THEN @ ELSE Append(@, parsed),
                      !.index = @ + 1, !.line = 0, !.acc = JNull,
                      !.pc = IF scan.index = Len(scan.files) THEN "returned" ELSE "open"]
    /\ UNCHANGED <<fs, split, summaryVars, digestVars, parseVars, cliVars>>

NextUnits == IsAvailable \/ GetSessions \/ OpenUnit \/ ReadUnitLine \/ CloseUnit

SpecUnits == InitUnits /\ [][NextUnits]_vars

----------------------------------------------------------------------------
(* SpecSum: sumTokens applied to a list of usages, and to the same usages    *)
(* taken in another order or summed in two groups                            *)

\* the usages summed: the two of the test "sumTokens combines usage correctly",
\* the empty usage, and a usage whose total is not the sum of its buckets
Usages ==
    { [input |-> 10, output |-> 20, reasoning |-> 5, cacheRead |-> 3, cacheWrite |-> 2,
       total |-> 40],
      [input |-> 4, output |-> 6, reasoning |-> 1, cacheRead |-> 1, cacheWrite |-> 0,
       total |-> 12],
      emptyTokenUsage,
      [input |-> 1, output |-> 0, reasoning |-> 0, cacheRead |-> 0, cacheWrite |-> 0,
       total |-> 5] }

InitSum ==
    /\ \E n \in 0..MaxOperands : \E usages \in [1..n -> Usages] :
          tally = [pc |-> "input", usages |-> usages, combined |-> JNull,
                   order |-> <<>>, reordered |-> JNull, cut |-> 0, grouped |-> JNull]
    /\ collect = [pc |-> "idle"]
    /\ SplitIdle
    /\ SummarizeIdle
    /\ UnitsIdle
    /\ ParseIdle
    /\ DigestIdle

\* const combined = sumTokens(...usages)
SumTokens ==
    /\ tally.pc = "input"
    /\ tally' = [tally EXCEPT !.pc = "summed", !.combined = sumTokens(tally.usages)]
    /\ UNCHANGED <<collect, split, summaryVars, unitVars, digestVars, parseVars>>

\* sumTokens of the same operands taken in another order
SumReordered ==
    /\ tally.pc = "summed"
    /\ \E order \in { f \in [DOMAIN tally.usages -> DOMAIN tally.usages] :
                         \A i, j \in DOMAIN f : f[i] = f[j] => i = j } :
          tally' = [tally EXCEPT
                      !.pc = "reordered", !.order = order,
                      !.reordered = sumTokens([i \in DOMAIN order |-> tally.usages[order[i]]])]
    /\ UNCHANGED <<collect, split, summaryVars, unitVars, digestVars, parseVars>>

\* sumTokens(sumTokens(...head), sumTokens(...tail)) for a cut of the operands
SumGrouped ==
    /\ tally.pc = "reordered"
    /\ \E cut \in 0..Len(tally.usages) :
          tally' = [tally EXCEPT
                      !.pc = "grouped", !.cut = cut,
                      !.grouped = sumTokens(<<sumTokens(SubSeq(tally.usages, 1, cut)),
                                              sumTokens(SubSeq(tally.usages, cut + 1,
                                                               Len(tally.usages)))>>)]
    /\ UNCHANGED <<collect, split, summaryVars, unitVars, digestVars, parseVars>>

NextSum == SumTokens \/ SumReordered \/ SumGrouped

SpecSum == InitSum /\ [][NextSum]_vars

----------------------------------------------------------------------------
(* SpecCollect: the devday command from the set-up of its parsers to the end *)
(* of the loop that collects their sessions, one await at a time             *)

\* variant: the Copilot parser is registered first
initializeParsers_CopilotFirst(cfg) ==
    (IF "copilot" \in cfg.enabledTools /\ Truthy(cfg.paths.copilotSessionState)
     THEN <<"copilot">> ELSE <<>>)
    \o (IF "opencode" \in cfg.enabledTools /\ Truthy(cfg.paths.opencodeStorage)
        THEN <<"opencode">> ELSE <<>>)
    \o (IF "claude-code" \in cfg.enabledTools /\ Truthy(cfg.paths.claudeCodeHome)
        THEN <<"claude-code">> ELSE <<>>)
    \o (IF "cursor" \in cfg.enabledTools /\ Truthy(cfg.paths.cursorStateDb)
        THEN <<"cursor">> ELSE <<>>)
    \o (IF "codex" \in cfg.enabledTools /\ Truthy(cfg.paths.codexSessions)
        THEN <<"codex">> ELSE <<>>)

\* const parsers: Parser[] = [] and the five conditional pushes, each parser by its name
initializeParsers(cfg) ==
    (IF "opencode" \in cfg.enabledTools /\ Truthy(cfg.paths.opencodeStorage)
     THEN <<"opencode">> ELSE <<>>)
    \o (IF "claude-code" \in cfg.enabledTools /\ Truthy(cfg.paths.claudeCodeHome)
        THEN <<"claude-code">> ELSE <<>>)
    \o (IF "cursor" \in cfg.enabledTools /\ Truthy(cfg.paths.cursorStateDb)
        THEN <<"cursor">> ELSE <<>>)
    \o (IF "codex" \in cfg.enabledTools /\ Truthy(cfg.paths.codexSessions)
        THEN <<"codex">> ELSE <<>>)
    \o (IF "copilot" \in cfg.enabledTools /\ Truthy(cfg.paths.copilotSessionState)
        THEN <<"copilot">> ELSE <<>>)

\* the tools a config may enable
ToolNames == {"opencode", "claude-code", "cursor", "codex", "copilot"}

\* the configs of the command: any tools enabled, every path known or one unknown
CollectConfigs ==
    { [enabledTools |-> enabled,
       paths |-> [opencodeStorage |-> JStr(<<"o">>), claudeCodeHome |-> JStr(<<"c">>),
                  cursorStateDb |-> cursorStateDb, codexSessions |-> JStr(<<"x">>),
                  copilotSessionState |-> JStr(<<"s">>)]] :
        enabled \in SUBSET ToolNames, cursorStateDb \in {JStr(<<"d">>), JUndefined} }

InitCollect ==
    /\ \E cfg \in CollectConfigs :
          collect = [pc |-> "start", config |-> cfg, parsers |-> <<>>, index |-> 0,
                     calls |-> <<>>, allSessions |-> <<>>]
    /\ tally = [pc |-> "idle"]
    /\ SplitIdle
    /\ SummarizeIdle
    /\ UnitsIdle
    /\ ParseIdle
    /\ DigestIdle

\* a call of a method of a parser, or its return, as the loop logs it
CollectEvent(method, phase, name, value) ==
    [method |-> method, phase |-> phase, parser |-> name, value |-> value]

\* the loop goes on from the parser at c.index: parser.isAvailable() of the next
\* parser is called and awaited, or the loop is over
nextParser(c) ==
    IF c.index = Len(c.parsers) THEN [c EXCEPT !.pc = "collected"]
    ELSE [c EXCEPT !.pc = "isAvailable", !.index = @ + 1,
                   !.calls = Append(@, CollectEvent("isAvailable", "call",
                                                    c.parsers[c.index + 1], JNull))]

\* the action up to its first await: the parsers are set up; with none the command
\* prints its message and returns, else the loop is entered
InitializeParsers ==
    /\ collect.pc = "start"
    /\ collect' = LET registered == [collect EXCEPT
                                        !.parsers = initializeParsers(collect.config)]
                  IN  IF registered.parsers = <<>>
                      THEN [registered EXCEPT !.pc = "noTools"]
                      ELSE nextParser(registered)
    /\ UNCHANGED <<tally, split, summaryVars, unitVars, digestVars, parseVars>>

\* await parser.isAvailable() resolves: when true getSessions(date) is called and
\* awaited, when false the parser is skipped
IsAvailableResolves ==
    /\ collect.pc = "isAvailable"
    /\ \E available \in BOOLEAN :
          LET name == collect.parsers[collect.index]
              returned == [collect EXCEPT
                             !.calls = Append(@, CollectEvent("isAvailable", "return", name,
                                                              available))]
          IN  collect' = IF available
                         THEN [returned EXCEPT
                                 !.pc = "getSessions",
                                 !.calls = Append(@, CollectEvent("getSessions", "call",
                                                                  name, JNull))]
                         ELSE nextParser(returned)
    /\ UNCHANGED <<tally, split, summaryVars, unitVars, digestVars, parseVars>>

\* await parser.getSessions(date) resolves: allSessions.push(...sessions)
GetSessionsResolves ==
    /\ collect.pc = "getSessions"
    /\ \E found \in 0..MaxFound :
          LET name == collect.parsers[collect.index]
              got == [k \in 1..found |-> [tool |-> name, id |-> k]]
          IN  collect' = nextParser([collect EXCEPT
                                       !.calls = Append(@, CollectEvent("getSessions",
                                                                        "return", name, got)),
                                       !.allSessions = @ \o got])
    /\ UNCHANGED <<tally, split, summaryVars, unitVars, digestVars, parseVars>>

\* await parser.getSessions(date) rejects: the catch of the action ends the command
GetSessionsRejects ==
    /\ collect.pc = "getSessions"
    /\ collect' = [collect EXCEPT
                     !.pc = "failed",
                     !.calls = Append(@, CollectEvent("getSessions", "return",
                                                      collect.parsers[collect.index],
                                                      JUndefined))]
    /\ UNCHANGED <<tally, split, summaryVars, unitVars, digestVars, parseVars>>

NextCollect ==
    InitializeParsers \/ IsAvailableResolves \/ GetSessionsResolves \/ GetSessionsRejects

SpecCollect == InitCollect /\ [][NextCollect]_vars

----------------------------------------------------------------------------
(* Claims about the digest truncator, checked under SpecDigest *)

Cut == maxChars > 0 /\ Len(digest) > maxChars

\* C1: for every digest d and budget max > 0 with len(d) > max, the result of
\* truncateConversationDigest(d, max) has length <= max, also for budgets
\* smaller than the truncation marker.
C1_ResultWithinBudget ==
    (dpc = "truncated" /\ Cut) => Len(truncated) <= maxChars

\* C2: truncateConversationDigest(d, max) returns d unchanged whenever
\* len(d) <= max, and whenever max <= 0 (cap disabled).
C2_FitsOrDisabledUnchanged ==
    (dpc # "input" /\ (Len(digest) <= maxChars \/ maxChars <= 0)) => truncated = digest

\* C2 witness: a non-empty digest that exactly fills a positive budget came back unchanged.
C2_Witness ==
    /\ dpc = "truncated"
    /\ maxChars > 0
    /\ Len(digest) = maxChars
    /\ truncated = digest

\* C3: truncation is idempotent: truncating the truncated digest again with
\* the same budget changes nothing.
C3_Idempotent ==
    dpc = "again" => retruncated = truncated

\* C4: for len(d) > max > 0 the result is head + marker + tail, head a prefix
\* of d, tail a suffix of d, and isDigestTruncated holds of the result.
C4_HeadMarkerTail ==
    (dpc # "input" /\ Cut) =>
        /\ \E h \in 0..Len(digest), t \in 0..Len(digest) :
              truncated = SubSeq(digest, 1, h) \o DIGEST_TRUNCATION_MARKER
                            \o SubSeq(digest, Len(digest) - t + 1, Len(digest))
        /\ isDigestTruncated(truncated)

\* C4 witness: a cut with a non-empty head and a non-empty tail, where trimming
\* the cut edges made the result shorter than the budget.
C4_Witness ==
    /\ dpc = "truncated"
    /\ Cut
    /\ maxChars > Len(DIGEST_TRUNCATION_MARKER) + 4
    /\ Len(truncated) < maxChars
    /\ truncated[1] = "["
    /\ truncated[Len(truncated)] # "\n"

\* C5: isDigestTruncated gives no false positive: a digest built from message
\* fragments that was not cut (it fit the budget, or the cap is disabled) is
\* reported as not truncated, whatever the messages contain.
C5_NoFalsePositive ==
    (dpc = "detected" /\ ~Cut) => ~detected

----------------------------------------------------------------------------
(* Claims about the extractors, checked under SpecParse.                   *)
(* The Claim* operators read the log as the claims describe it; they do    *)
(* not use the operators that model the parsers.                           *)

Done == pc = "done"
Returned == pc = "done" /\ session.t = "session"

\* the places a line can carry a timestamp: its own field, or inside payload / data
ClaimTimestamps(line) ==
    { v \in { Get(line, Key.timestamp),
              Get(Get(line, Key.payload), Key.timestamp),
              Get(Get(line, Key.data), Key.timestamp),
              Get(Get(line, Key.data), Key.startTime) } : v.t = "datestring" }

\* the line carries no parsable timestamp, or only timestamps outside the requested day
ClaimOutsideDay(line) ==
    \A v \in ClaimTimestamps(line) : v.v < DayStartMs \/ v.v > DayEndMs

ClaimInDay(line) == ~ClaimOutsideDay(line)

\* sum over the set S of timestamps: each one's gap to the next larger one, capped at 300000 ms
RECURSIVE ClaimGapSum(_, _)
ClaimGapSum(S, rest) ==
    IF rest = {} THEN 0
    ELSE LET a == CHOOSE x \in rest : TRUE
             later == { b \in S : b > a }
             next == CHOOSE b \in later : \A c \in later : b <= c
         IN  (IF later = {} THEN 0
              ELSE IF next - a > 300000 THEN 300000 ELSE next - a)
               + ClaimGapSum(S, rest \ {a})

ActivitySet == { acc.activityTimestamps[i] : i \in 1..Len(acc.activityTimestamps) }

\* C6: durationMs is the sum over consecutive in-day activity timestamps, sorted
\* ascending, of min(gap, 300000 ms) for each positive gap, whatever the order of
\* the records in the log.
C6_DurationIsCappedGapSum ==
    Returned =>
        /\ session.durationMs = ClaimGapSum(ActivitySet, ActivitySet)
        /\ \A ts \in ActivitySet : ts >= DayStartMs /\ ts <= DayEndMs

\* C6 witness: the activity [t0 + 401000, t0, t0 + 1000], recorded out of order, gives 301000 ms.
C6_Witness ==
    /\ Returned
    /\ acc.activityTimestamps = <<T0 + 401000, T0, T0 + 1000>>
    /\ session.durationMs = 301000

\* C7: a unit whose records all carry timestamps outside the requested day, or no
\* parsable timestamp, yields no Session from getSessions, in both extractors.
C7_OutsideDayNoSession ==
    (Done /\ \A i \in 1..Len(lines) : ClaimOutsideDay(lines[i]))
        => (session = JNull /\ sessions = <<>>)

\* C7 witness: a finished unit with a record before the day and a record after it, and no Session.
C7_Witness ==
    /\ Done
    /\ \A i \in 1..Len(lines) : ClaimOutsideDay(lines[i])
    /\ \E i, j \in 1..Len(lines) :
          /\ Get(lines[i], Key.timestamp) = JDate(Before)
          /\ Get(lines[j], Key.timestamp) = JDate(After)
    /\ sessions = <<>>

\* C8: if no activity timestamp was recorded, the extractor returns no Session, even
\* when other in-day records (session metadata, model context, token usage) are present.
C8_NoActivityNoSession ==
    (Done /\ acc.activityTimestamps = <<>>) => (session = JNull /\ sessions = <<>>)

\* the non-metadata aggregates of the Session under construction
Aggregates(a) ==
    << a.userMessageCount, a.assistantMessageCount, a.digestParts, a.toolCallSummaries,
       a.filesTouched, a.tokens, a.models >>

\* C9: message counts, digest fragments, tool-call summaries, filesTouched, token
\* usage and the models set are built from in-day records only: reading a record
\* outside the day changes none of them, in either extractor.
C9_OutsideDayChangesNothing ==
    [][ (pc = "reading" /\ pc' = "reading" /\ Len(lines') = Len(lines) + 1
            /\ ClaimOutsideDay(lines'[Len(lines')]))
        => Aggregates(acc') = Aggregates(acc) ]_vars

\* the key under which a Codex token_count event names each bucket
CodexBucketKey(bucket) ==
    CASE bucket = "input" -> Key.input_tokens
      [] bucket = "output" -> Key.output_tokens
      [] bucket = "reasoning" -> Key.reasoning_output_tokens
      [] bucket = "cacheRead" -> Key.cached_input_tokens
      [] bucket = "cacheWrite" -> Key.cache_creation_input_tokens

ClaimIsNumber(v) == v.t \in {"number", "numstring"}

\* the value a Copilot record reports for a bucket: the first alias at the object,
\* failing that the first nested container (to depth 3) that reports one; else none
RECURSIVE ClaimCopilotFind(_, _, _)
ClaimCopilotFind(value, aliases, depth) ==
    IF depth > 3 \/ value.t # "object" THEN <<>>
    ELSE LET here == { i \in 1..Len(aliases) : ClaimIsNumber(Get(value, aliases[i])) }
             below == { k \in 1..Len(nestedKeys) :
                          ClaimCopilotFind(Get(value, nestedKeys[k]), aliases, depth + 1) # <<>> }
         IN  IF here # {}
             THEN <<Get(value, aliases[CHOOSE i \in here : \A j \in here : i <= j]).v>>
             ELSE IF below # {}
             THEN ClaimCopilotFind(
                     Get(value, nestedKeys[CHOOSE k \in below : \A j \in below : k <= j]),
                     aliases, depth + 1)
             ELSE <<>>

\* the value one line reports for a bucket (0 when it reports none)
ClaimReported(line, bucket) ==
    IF parser = "codex"
    THEN LET payload == Get(line, Key.payload)
             nested == Get(Get(payload, Key.info), Key.last_token_usage)
             usage == IF nested.t = "object" THEN nested ELSE Get(payload, Key.last_token_usage)
             value == Get(usage, CodexBucketKey(bucket))
         IN  IF Get(line, Key.type) = JStr(Key.event_msg)
                /\ Get(payload, Key.type) = JStr(Key.token_count)
                /\ value.t = "number"
             THEN value.v ELSE 0
    ELSE LET found == ClaimCopilotFind(Get(line, Key.data), usageAliases[bucket], 0)
         IN  IF found = <<>> THEN 0 ELSE found[1]

RECURSIVE ClaimReportedSum(_, _)
ClaimReportedSum(log, bucket) ==
    IF log = <<>> THEN 0
    ELSE (IF ClaimInDay(log[1]) THEN ClaimReported(log[1], bucket) ELSE 0)
           + ClaimReportedSum(Tail(log), bucket)

Buckets == {"input", "output", "reasoning", "cacheRead", "cacheWrite"}

\* C10: in every returned Session tokens.total is the sum of the five buckets, and
\* each bucket is the sum of the values the unit's in-day token-usage records
\* report for it.
C10_TokenBuckets ==
    Returned =>
        /\ session.tokens.total =
              session.tokens.input + session.tokens.output + session.tokens.reasoning
                + session.tokens.cacheRead + session.tokens.cacheWrite
        /\ \A b \in Buckets : session.tokens[b] = ClaimReportedSum(lines, b)

\* a Codex line that reports a message of the role: an event_msg (user_message for the
\* user; agent_message or assistant_message for the assistant) or a response_item message
ClaimCodexEventMessage(line, role) ==
    /\ Get(line, Key.type) = JStr(Key.event_msg)
    /\ Get(Get(line, Key.payload), Key.type) \in
          (IF role = "user" THEN {JStr(Key.user_message)}
           ELSE {JStr(Key.agent_message), JStr(Key.assistant_message)})

ClaimCodexItemMessage(line) ==
    /\ Get(line, Key.type) = JStr(Key.response_item)
    /\ Get(Get(line, Key.payload), Key.type) = JStr(Key.message)

ClaimItemRole(line, role) ==
    Get(Get(line, Key.payload), Key.role) =
       JStr(IF role = "user" THEN Key.user ELSE Key.assistant)

\* the in-day message records of the role among the first n lines; in a Codex log
\* an event_msg report that follows an in-day response_item message is a repeat
\* of a message already reported, not a further message record
ClaimMessageRecords(role) ==
    { i \in 1..Len(lines) :
        /\ ClaimInDay(lines[i])
        /\ IF parser = "codex"
           THEN \/ ClaimCodexItemMessage(lines[i]) /\ ClaimItemRole(lines[i], role)
                \/ /\ ClaimCodexEventMessage(lines[i], role)
                   /\ ~\E j \in 1..(i - 1) :
                          ClaimInDay(lines[j]) /\ ClaimCodexItemMessage(lines[j])
           ELSE Get(lines[i], Key.type) =
                  JStr(IF role = "user" THEN EventType.user_message
                       ELSE EventType.assistant_message) }

C12_OneValuePerBucket ==
    [][ (parser = "copilot" /\ pc = "reading" /\ pc' = "reading"
            /\ Len(lines') = Len(lines) + 1)
        => \A b \in Buckets :
              acc'.tokens[b] = acc.tokens[b]
                 + (IF ClaimInDay(lines'[Len(lines')])
                    THEN ClaimReported(lines'[Len(lines')], b) ELSE 0) ]_vars

----------------------------------------------------------------------------
(* Claims about the summary pipeline *)

SplitDone == split.pc = "split" /\ Len(split.digest) > split.targetChars

\* the chunks are runs of whole consecutive fragments: ends[k] is the last fragment of chunk k
ClaimRunsOfFragments(parts, chunks) ==
    \E ends \in [1..Len(chunks) -> 1..Len(parts)] :
        /\ ends[Len(chunks)] = Len(parts)
        /\ \A k \in 1..Len(chunks) :
              LET first == IF k = 1 THEN 1 ELSE ends[k - 1] + 1
              IN  /\ first <= ends[k]
                  /\ chunks[k] = join(SubSeq(parts, first, ends[k]), BlankLine)

\* C16: for a digest longer than target, splitDigestIntoChunks returns between 1 and
\* maxChunks chunks, each a run of whole consecutive fragments in their order, none
\* cut or lost, so that the chunks joined by a blank line reproduce the digest.
C16_ChunksAreWholeFragments ==
    SplitDone =>
        /\ Len(split.chunks) >= 1
        /\ Len(split.chunks) <= split.maxChunks
        /\ ClaimRunsOfFragments(split.parts, split.chunks)
        /\ join(split.chunks, BlankLine) = split.digest

----------------------------------------------------------------------------
(* Claims about the summary pipeline, checked under SpecSummarize and       *)
(* FairSummarize                                                            *)

\* the callSummarizer calls of one session that have returned, in order, all or of one kind
ClaimCallsOf(sid, kinds) ==
    SelectSeq(callLog, LAMBDA e : e.session = sid /\ e.kind \in kinds)
\* those of them that returned a summary
ClaimSucceeded(calls) == SelectSeq(calls, LAMBDA e : Truthy(e.result))
\* the session of the recap with the given id
ClaimSession(sid) == CHOOSE s \in { recap[i] : i \in DOMAIN recap } : s.id = sid
\* the deterministic fallback summary of that session
ClaimFallback(sid) == buildFallbackSessionSummary(ClaimSession(sid), <<"p">>)
\* the chunks the session's digest is split into, none when it is under the threshold
ClaimChunksOf(sid) ==
    LET chunkChars == resolveSummaryChunkChars(options.chunkChars)
        digestText == IF ClaimSession(sid).conversationDigest = <<>>
                      THEN Phrase.noTranscript
                      ELSE ClaimSession(sid).conversationDigest
    IN  IF Len(digestText) <= chunkChars THEN <<>>
        ELSE splitDigestIntoChunks(digestText, chunkChars, MAX_SUMMARY_CHUNKS)

\* C13: for a session whose digest is above the chunk threshold and whose summary
\* has been stored: if at least one chunk call returned a summary, exactly one
\* synthesis call and no whole-digest call was made, and if the synthesis failed
\* the summary is the returned chunk summaries, in chunk order, joined by a blank
\* line; if every chunk call failed, no synthesis call and exactly one whole-digest
\* call was made, and the summary is what that call returned, or the deterministic
\* fallback summary if it failed too.
C13_FallbackChain ==
    \A sid \in DOMAIN summaries :
       LET chunks == ClaimCallsOf(sid, {<<"c">>})
           good == ClaimSucceeded(chunks)
           synthesis == ClaimCallsOf(sid, {<<"y">>})
           whole == ClaimCallsOf(sid, {<<"w">>})
       IN  chunks # <<>> =>
             /\ \A i, j \in 1..Len(good) : i < j => good[i].chunkIndex < good[j].chunkIndex
             /\ good # <<>> =>
                  /\ Len(synthesis) = 1
                  /\ whole = <<>>
                  /\ ~Truthy(synthesis[1].result) =>
                        summaries[sid] = join([i \in 1..Len(good) |-> good[i].result.v],
                                              BlankLine)
             /\ good = <<>> =>
                  /\ synthesis = <<>>
                  /\ Len(whole) = 1
                  /\ summaries[sid] = IF Truthy(whole[1].result) THEN whole[1].result.v
                                      ELSE ClaimFallback(sid)

\* a run is over in which a session had three chunk requests, of which two
\* returned a summary and one did not, and then had the synthesis call fail
C13_Witness ==
    /\ run.pc = "done"
    /\ \E sid \in DOMAIN summaries :
          /\ Len(ClaimCallsOf(sid, {<<"c">>})) = 3
          /\ Len(ClaimSucceeded(ClaimCallsOf(sid, {<<"c">>}))) = 2
          /\ ~Truthy(ClaimCallsOf(sid, {<<"y">>})[1].result)
          /\ ClaimCallsOf(sid, {<<"c">>})[1].external

C15_CallsResolveWithinTimeout ==
    call.phase \in {"fetch", "body"} => call.ticks * TickMs <= LLM_TIMEOUT_MS

\* every callSummarizer call of the session failed, or returned a text that is empty
\* or white space only
ClaimNoSummaryReceived(sid) ==
    \A i \in 1..Len(ClaimCallsOf(sid, {<<"c">>, <<"y">>, <<"w">>})) :
       LET e == ClaimCallsOf(sid, {<<"c">>, <<"y">>, <<"w">>})[i]
       IN  \/ ~Truthy(e.result)
           \/ e.received.t = "string" /\ trim(e.received.v) = <<>>

\* C17: the stored summary of a session is the deterministic fallback summary
\* whenever no summarizer is configured, summarization is disabled, the configured
\* provider has no API key, or every call for the session failed or returned empty
\* or white-space-only text; in the first three cases no request was made.
C17_FallbackWhenNothingReceived ==
    /\ \A sid \in DOMAIN summaries :
          ClaimNoSummaryReceived(sid) => summaries[sid] = ClaimFallback(sid)
    /\ (\/ config.preferredSummarizer = "none"
        \/ options.summarizeWithLlm = [t |-> "boolean", v |-> FALSE]
        \/ callSummarizer(config) = "none")
         => \A i \in 1..Len(callLog) : ~callLog[i].external

----------------------------------------------------------------------------
(* Claims about malformed records, checked under SpecParse *)

\* the locals of parseSessionFile after the lines ls, read from the locals a
RECURSIVE ClaimAfterLines(_, _)
ClaimAfterLines(a, ls) ==
    IF ls = <<>> THEN a
    ELSE ClaimAfterLines(IF parser = "codex"
                         THEN Codex_line(a, ls[1], DayStartMs, DayEndMs)
                         ELSE Copilot_line(a, ls[1], DayStartMs, DayEndMs), Tail(ls))

\* what getSessions returns over the unit with every line removed that is no JSON
\* or no JSON object
ClaimWithoutMalformed ==
    LET kept == SelectSeq(lines, LAMBDA l : l.t = "object")
        first == IF parser = "codex" THEN Codex_initial(Sample.fileId)
                 ELSE Copilot_initial(Sample.fileId, NoWorkspace)
        parsed == sessionOf(ClaimAfterLines(first, kept), parser, DayStartMs, DayEndMs)
    IN  IF parsed.t = "session" THEN <<parsed>> ELSE <<>>

\* C18: once getSessions has finished with a unit, by returning or by throwing, it
\* has returned, and returned the Sessions it returns over the unit with the
\* malformed lines (no JSON, or JSON that is no object) removed.
C18_MalformedLinesSkipped ==
    pc \in {"done", "threw"} => pc = "done" /\ sessions = ClaimWithoutMalformed

----------------------------------------------------------------------------
(* Claims about roots and units, checked under SpecUnits *)

\* getSessions has finished, by returning or by throwing
ClaimScanOver == scan.pc \in {"returned", "threw"}

\* the locals of parseSessionFile after the lines ls, read from the locals a
RECURSIVE ClaimAfterUnitLines(_, _)
ClaimAfterUnitLines(a, ls) ==
    IF ls = <<>> THEN a
    ELSE ClaimAfterUnitLines(IF scan.parser = "codex"
                             THEN Codex_line(a, ls[1], DayStartMs, DayEndMs)
                             ELSE Copilot_line(a, ls[1], DayStartMs, DayEndMs), Tail(ls))

\* the Session of one unit read alone, its malformed lines skipped
ClaimSessionOf(u) ==
    sessionOf(ClaimAfterUnitLines(IF scan.parser = "codex" THEN Codex_initial(u.name)
                                  ELSE Copilot_initial(u.name, NoWorkspace),
                                  SelectSeq(u.content, LAMBDA l : l.t = "object")),
              scan.parser, DayStartMs, DayEndMs)

\* the Sessions of the readable units that have one, in the order of the listing
RECURSIVE ClaimSessionsOf(_)
ClaimSessionsOf(units) ==
    IF units = <<>> THEN <<>>
    ELSE (IF units[1].readable /\ ClaimSessionOf(units[1]) # JNull
          THEN <<ClaimSessionOf(units[1])>> ELSE <<>>)
           \o ClaimSessionsOf(Tail(units))

\* C19: when the root does not exist, isAvailable() returns false and getSessions
\* returns the empty list without throwing; when the root is listed and a unit's
\* file cannot be read, getSessions still returns, and returns the Sessions of all
\* the other units and none for that unit.
C19_MissingRootAndUnreadableUnits ==
    /\ scan.available # JUndefined => scan.available.v = fs.rootExists
    /\ (~fs.rootExists /\ ClaimScanOver) => scan.pc = "returned" /\ scan.sessions = <<>>
    /\ (/\ fs.rootExists /\ fs.listable
        /\ \E i \in DOMAIN fs.units : ~fs.units[i].readable
        /\ ClaimScanOver)
         => scan.pc = "returned" /\ scan.sessions = ClaimSessionsOf(fs.units)

\* the text of a digest fragment: what follows its [User]: or [Assistant]: tag
ClaimFragmentText(f) ==
    IF SubSeq(f, 1, Len(UserTag)) = UserTag THEN SubSeq(f, Len(UserTag) + 1, Len(f))
    ELSE SubSeq(f, Len(AssistantTag) + 1, Len(f))

\* the fragment texts of the Sessions returned
ClaimFragmentTexts ==
    UNION { { ClaimFragmentText(f) :
                f \in { splitAtFragments(scan.sessions[i].conversationDigest, 1)[k] :
                          k \in 1..Len(splitAtFragments(scan.sessions[i].conversationDigest, 1)) } } :
            i \in { j \in 1..Len(scan.sessions) : scan.sessions[j].conversationDigest # <<>> } }

\* the per-message cap in force: the override when it is a number, else 500
ClaimMessageCap ==
    IF fs.messageMaxChars.t = "numstring" THEN fs.messageMaxChars.v ELSE 500

\* C20: every message fragment of a returned digest is capped by the configurable
\* per-message cap: with the override set to N > 0 no fragment text is longer than
\* N characters plus the ellipsis, with the override 0 no fragment is cut, and with
\* the override absent or invalid the cap is 500.
C20_FragmentsCappedByOverride ==
    scan.pc = "returned" =>
        \A text \in ClaimFragmentTexts :
            /\ ClaimMessageCap > 0 => Len(text) <= ClaimMessageCap + 3
            /\ ClaimMessageCap = 0 => text \in {Text.hi, Text.filler}

----------------------------------------------------------------------------
(* Claims about titles, tool calls and the session span, checked under SpecParse *)

\* the line that a reading step has just read
ClaimRead == lines'[Len(lines')]

\* a step of parseSessionFile that reads one more line and goes on
ClaimReadStep == pc = "reading" /\ pc' = "reading" /\ Len(lines') = Len(lines) + 1

\* the text a message record carries: payload.message, or the content (of payload
\* or data) as a string or as a list of text parts
ClaimMessageText(line) ==
    LET body == IF parser = "codex" THEN Get(line, Key.payload) ELSE Get(line, Key.data)
        message == Get(body, Key.message)
        content == Get(body, Key.content)
    IN  IF parser = "codex" /\ message.t = "string" THEN message.v
        ELSE IF content.t = "string"
        THEN IF parser = "codex" THEN content.v ELSE trim(content.v)
        ELSE IF content.t = "array"
        THEN trim(join([i \in 1..Len(content.v) |-> Get(content.v[i], Key.text).v], <<"\n">>))
        ELSE <<>>

\* the text looks like an injected system or environment envelope
ClaimEnvelope(text) ==
    \/ includes(text, Literal.environment_context)
    \/ startsWith(text, Literal.AGENTS_md)
    \/ parser = "copilot" /\ includes(text, Literal.agent_instructions)

\* the step reads an in-day user message that has a text (in a Codex log, one that
\* is not a repeat of a message already reported as a response_item)
ClaimReadsUserMessage ==
    /\ ClaimReadStep
    /\ Len(lines') \in { i \in 1..Len(lines') :
          /\ ClaimInDay(lines'[i])
          /\ IF parser = "codex"
             THEN \/ ClaimCodexItemMessage(lines'[i]) /\ ClaimItemRole(lines'[i], "user")
                  \/ /\ ClaimCodexEventMessage(lines'[i], "user")
                     /\ ~\E j \in 1..(i - 1) :
                            ClaimInDay(lines'[j]) /\ ClaimCodexItemMessage(lines'[j])
             ELSE Get(lines'[i], Key.type) = JStr(EventType.user_message) }
    /\ ClaimMessageText(ClaimRead) # <<>>

\* the title a message gives: its white space collapsed, cut to 60 characters
ClaimTitleOf(text) ==
    LET clean == trim(collapseWhitespace(text))
    IN  IF Len(clean) <= 60 THEN clean ELSE SubSeq(clean, 1, 57) \o <<".", ".", ".">>

\* a title is set when it is a string that is not empty
ClaimTitleSet(a) == a.title.t = "string" /\ a.title.v # <<>>

\* C21: while the title is unset, the first in-day user message that is no
\* system/environment envelope sets it, to the message with its white space
\* collapsed, at most 60 characters long; an envelope leaves it unset; once the
\* title is set, from metadata or from a message, no later message changes it.
C21_TitleFromFirstUserMessage ==
    [][ /\ (ClaimReadsUserMessage /\ ~ClaimTitleSet(acc)
              /\ ~ClaimEnvelope(ClaimMessageText(ClaimRead)))
            => /\ acc'.title = JStr(ClaimTitleOf(ClaimMessageText(ClaimRead)))
               /\ Len(acc'.title.v) <= 60
        /\ (ClaimReadsUserMessage /\ ~ClaimTitleSet(acc)
              /\ ClaimEnvelope(ClaimMessageText(ClaimRead)))
            => acc'.title = acc.title
        /\ (ClaimReadStep /\ ClaimTitleSet(acc)) => acc'.title = acc.title ]_vars

\* C21 witness: the first message is an envelope, the second, of 64 characters with
\* a tab, gave a title of 60 characters, and a third message did not change it.
C21_Witness ==
    /\ pc = "reading"
    /\ Len(lines) = 3
    /\ ClaimMessageText(lines[1]) = Text.envelope
    /\ ClaimMessageText(lines[2]) = Text.longPrompt
    /\ ClaimMessageText(lines[3]) = Text.spaced
    /\ acc.title = JStr(<<"g", "o", " ">> \o repeat("y", 54) \o <<".", ".", ".">>)

\* the tool invocations a line records, in order: the name and the raw arguments
ClaimInvocations(line) ==
    LET body == IF parser = "codex" THEN Get(line, Key.payload) ELSE Get(line, Key.data)
        type == Get(line, Key.type)
        requests == Get(body, Key.toolRequests)
    IN  IF parser = "codex"
        THEN IF type # JStr(Key.response_item) THEN <<>>
             ELSE IF Get(body, Key.type) = JStr(Key.function_call)
             THEN <<[name |-> Get(body, Key.name), args |-> Get(body, Key.arguments)]>>
             ELSE IF Get(body, Key.type) = JStr(Key.custom_tool_call)
             THEN <<[name |-> Get(body, Key.name), args |-> Get(body, Key.input)]>>
             ELSE <<>>
        ELSE IF type = JStr(EventType.assistant_message) /\ requests.t = "array"
        THEN [i \in 1..Len(requests.v) |->
                [name |-> Get(requests.v[i], Key.name), args |-> Get(requests.v[i], Key.arguments)]]
        ELSE IF type \in {JStr(EventType.tool_execution_start), JStr(EventType.tool_execution_complete)}
        THEN <<[name |-> Coalesce(Get(body, Key.toolName), Get(body, Key.name)),
                args |-> Coalesce(Get(body, Key.arguments), Get(body, Key.result))]>>
        ELSE <<>>

\* the arguments as a value: JSON text is parsed
ClaimArguments(inv) == IF inv.args.t = "jsonstring" THEN inv.args.v ELSE inv.args

\* the one line for an invocation, by strict priority: path, command, pattern, name
ClaimSummaryLine(inv) ==
    LET tool == IF inv.name.t = "string" THEN inv.name.v ELSE Key.tool
        input == ClaimArguments(inv)
        present(k) == Get(input, k).t = "string" /\ Get(input, k).v # <<>>
        pathKeys == <<Key.filePath, Key.path, Key.file, Key.filepath>>
        withPath == { i \in 1..Len(pathKeys) : present(pathKeys[i]) }
    IN  IF withPath # {}
        THEN tool \o <<" ">>
               \o Get(input, pathKeys[CHOOSE i \in withPath : \A j \in withPath : i <= j]).v
        ELSE IF present(Key.command)
        THEN Literal.bash_prefix \o SubSeq(Get(input, Key.command).v, 1,
                                           Min(80, Len(Get(input, Key.command).v)))
        ELSE IF present(Key.pattern) THEN tool \o <<":", " ">> \o Get(input, Key.pattern).v
        ELSE tool

\* C22: summarizeToolCall gives exactly one line per tool invocation, chosen by
\* strict priority: "<tool> <path>" when a file path argument is present, else
\* "bash: <first 80 characters of the command>", else "<tool>: <pattern>", else
\* the bare tool name ("tool" when the name is missing).
C22_SummaryByPriority ==
    [][ (ClaimReadStep /\ ClaimInDay(ClaimRead))
        => acc'.toolCallSummaries =
              acc.toolCallSummaries
                \o [i \in 1..Len(ClaimInvocations(ClaimRead)) |->
                      ClaimSummaryLine(ClaimInvocations(ClaimRead)[i])] ]_vars

\* the string values found in a value, each with its key, at any depth
RECURSIVE ClaimKeyedStrings(_)
ClaimKeyedStrings(value) ==
    IF value.t = "array"
    THEN UNION { ClaimKeyedStrings(value.v[i]) : i \in 1..Len(value.v) }
    ELSE IF value.t # "object" THEN {}
    ELSE UNION { IF value.v[k].t = "string" THEN {<<k, value.v[k].v>>}
                 ELSE ClaimKeyedStrings(value.v[k]) : k \in DOMAIN value.v }

\* the arguments and results of the tool invocations a line records
ClaimInvocationValues(line) ==
    { ClaimArguments(ClaimInvocations(line)[i]) : i \in 1..Len(ClaimInvocations(line)) }
      \cup (IF parser = "copilot" /\ ClaimInvocations(line) # <<>>
            THEN {Get(Get(line, Key.data), Key.result)} ELSE {})

\* the key is path-like: it contains "path" or "file", or is "cwd"
ClaimPathLikeKey(k) ==
    \/ includes(toLowerCase(k), Key.path)
    \/ includes(toLowerCase(k), Key.file)
    \/ toLowerCase(k) = Key.cwd

\* the value looks like a filesystem path and is no http(s) URL
ClaimLooksLikePath(v) ==
    /\ \/ includes(v, <<"/">>) \/ includes(v, <<"\\">>)
       \/ startsWith(v, <<"~">>) \/ startsWith(v, <<".", "/">>)
       \/ startsWith(v, <<".", ".", "/">>)
    /\ ~startsWith(toLowerCase(v), Literal.http)
    /\ ~startsWith(toLowerCase(v), Literal.https)

\* C23: a string value found in the arguments or results of an in-day tool
\* invocation is added to filesTouched if and only if its key is path-like and
\* its value looks like a filesystem path and is no http(s) URL, in the Codex
\* and in the Copilot extractor.
C23_FilesTouchedByKeyAndValue ==
    [][ (ClaimReadStep /\ ClaimInDay(ClaimRead))
        => acc'.filesTouched =
              acc.filesTouched
                \cup { kv[2] : kv \in { x \in UNION { ClaimKeyedStrings(v) :
                                                        v \in ClaimInvocationValues(ClaimRead) } :
                                        ClaimPathLikeKey(x[1]) /\ ClaimLooksLikePath(x[2]) } } ]_vars

\* the summaries produced by the in-day tool invocations of a log, in log order
RECURSIVE ClaimProduced(_)
ClaimProduced(log) ==
    IF log = <<>> THEN <<>>
    ELSE (IF ClaimInDay(log[1])
          THEN [i \in 1..Len(ClaimInvocations(log[1])) |->
                  IF parser = "codex"
                  THEN Codex_toolSummary(stringOrNull(ClaimInvocations(log[1])[i].name),
                                         ClaimInvocations(log[1])[i].args)
                  ELSE Copilot_toolSummary(stringOrNull(ClaimInvocations(log[1])[i].name),
                                           ClaimInvocations(log[1])[i].args)]
          ELSE <<>>)
           \o ClaimProduced(Tail(log))

\* the position at which a summary is produced first
ClaimFirstAt(produced, summary) ==
    CHOOSE i \in 1..Len(produced) :
       produced[i] = summary /\ \A j \in 1..(i - 1) : produced[j] # summary

\* C24: toolCallSummaries of a returned Session holds no two equal strings, holds
\* every distinct summary produced by an in-day tool invocation of the unit, and
\* lists them in the order of their first occurrence.
C24_SummariesDistinctInOrder ==
    Returned =>
        LET result == session.toolCallSummaries
            produced == ClaimProduced(lines)
        IN  /\ \A i, j \in 1..Len(result) : result[i] = result[j] => i = j
            /\ { result[i] : i \in 1..Len(result) } = { produced[i] : i \in 1..Len(produced) }
            /\ \A i, j \in 1..Len(result) :
                  i < j => ClaimFirstAt(produced, result[i]) < ClaimFirstAt(produced, result[j])

\* C24 witness: three in-day invocations, the third repeating the summary of the
\* first, gave two summaries, the repeated one first.
C24_Witness ==
    /\ Returned
    /\ Len(ClaimProduced(lines)) = 3
    /\ ClaimProduced(lines)[1] = ClaimProduced(lines)[3]
    /\ ClaimProduced(lines)[1] # ClaimProduced(lines)[2]
    /\ session.toolCallSummaries = <<ClaimProduced(lines)[1], ClaimProduced(lines)[2]>>

\* the timestamps of the in-day records of the unit
ClaimInDayTimestamps ==
    UNION { { x.v : x \in { y \in ClaimTimestamps(lines[i]) :
                              y.v >= DayStartMs /\ y.v <= DayEndMs } } : i \in 1..Len(lines) }

\* C25: in every returned Session dayStart <= startedAt <= endedAt <= dayEnd,
\* where startedAt and endedAt are the least and the greatest timestamp of the
\* unit's in-day records, clipped into the requested day.
C25_SpanWithinDay ==
    Returned =>
        /\ DayStartMs <= session.startedAt
        /\ session.startedAt <= session.endedAt
        /\ session.endedAt <= DayEndMs
        /\ \A ts \in ClaimInDayTimestamps : session.startedAt <= ts /\ ts <= session.endedAt
        /\ session.startedAt \in ClaimInDayTimestamps
        /\ session.endedAt \in ClaimInDayTimestamps

\* C25 witness: a unit with a record before the day, one at its first instant and
\* one at its last gave a Session that spans the whole day.
C25_Witness ==
    /\ Returned
    /\ \E i \in 1..Len(lines) : Get(lines[i], Key.timestamp) = JDate(Before)
    /\ session.startedAt = DayStartMs
    /\ session.endedAt = DayEndMs

\* C29: for every returned Session with n in-day activity timestamps,
\* 0 <= durationMs <= endedAt - startedAt and durationMs <= (n - 1) * 300000
\* (durationMs is 0 when n <= 1).
C29_DurationBounds ==
    Returned =>
        LET n == Len(acc.activityTimestamps)
        IN  /\ 0 <= session.durationMs
            /\ session.durationMs <= session.endedAt - session.startedAt
            /\ n >= 1 => session.durationMs <= (n - 1) * 300000
            /\ n <= 1 => session.durationMs = 0

\* C29 witness: three activity timestamps with gaps of 1000 ms and 400000 ms gave
\* 301000 ms, within the span of 401000 ms and under 2 * 300000 ms.
C29_Witness ==
    /\ Returned
    /\ Len(acc.activityTimestamps) = 3
    /\ session.durationMs = 301000
    /\ session.endedAt - session.startedAt = 401000

----------------------------------------------------------------------------
(* Claims about messages reported twice in a Codex log, checked under SpecParse *)

\* the in-day records of the Codex log that report a message of the role, as
\* event_msg (kind "event") or as response_item (kind "item")
ClaimReports(kind, role) ==
    { i \in 1..Len(lines) :
        /\ ClaimInDay(lines[i])
        /\ IF kind = "event" THEN ClaimCodexEventMessage(lines[i], role)
           ELSE ClaimCodexItemMessage(lines[i]) /\ ClaimItemRole(lines[i], role) }

\* the message a record reports: its text and its instant
ClaimMessageOf(i) == <<ClaimMessageText(lines[i]), Get(lines[i], Key.timestamp)>>

\* every message of the role is reported once as event_msg and once as response_item
ClaimReportedTwice(role) ==
    LET events == { ClaimMessageOf(i) : i \in ClaimReports("event", role) }
        items == { ClaimMessageOf(i) : i \in ClaimReports("item", role) }
    IN  /\ events = items
        /\ Cardinality(events) = Cardinality(ClaimReports("event", role))
        /\ Cardinality(items) = Cardinality(ClaimReports("item", role))

\* C28: in the Codex extractor each message is counted once. After the first
\* in-day response_item message, no later event_msg user_message, agent_message
\* or assistant_message record changes the counts, the digest, the title or the
\* activity timestamps; and a log that reports every message both as event_msg
\* and as response_item gives counts equal to the number of distinct messages,
\* in whatever order the two kinds of record come.
C28_EachMessageCountedOnce ==
    /\ [][ (/\ parser = "codex"
            /\ ClaimReadStep
            /\ \E j \in 1..Len(lines) : ClaimInDay(lines[j]) /\ ClaimCodexItemMessage(lines[j])
            /\ \/ ClaimCodexEventMessage(ClaimRead, "user")
               \/ ClaimCodexEventMessage(ClaimRead, "assistant"))
           => /\ acc'.userMessageCount = acc.userMessageCount
              /\ acc'.assistantMessageCount = acc.assistantMessageCount
              /\ acc'.digestParts = acc.digestParts
              /\ acc'.title = acc.title
              /\ acc'.activityTimestamps = acc.activityTimestamps ]_vars
    /\ [](( /\ Returned
            /\ parser = "codex"
            /\ ClaimReportedTwice("user")
            /\ ClaimReportedTwice("assistant"))
           => /\ session.userMessageCount = Cardinality(ClaimReports("item", "user"))
              /\ session.assistantMessageCount = Cardinality(ClaimReports("item", "assistant")))

----------------------------------------------------------------------------
(* Claims about the calls of the summary pipeline, checked under SpecSummarize *)

\* the place of a session in the order the loop takes the sessions
ClaimPlace(sid) == CHOOSE i \in 1..Len(contexts) : contexts[i].session.id = sid
\* the chunk threshold asked for: options.chunkChars, or the default
ClaimThreshold ==
    IF options.chunkChars.t = "number" THEN options.chunkChars.v
    ELSE DEFAULT_SUMMARY_CHUNK_CHARS
\* the text summarized for a session
ClaimDigestText(sid) ==
    IF ClaimSession(sid).conversationDigest = <<>> THEN Phrase.noTranscript
    ELSE ClaimSession(sid).conversationDigest
\* buildSessionSummaries hands the sessions to summarizeSessionWithLlm
ClaimUsesLlm ==
    options.summarizeWithLlm.t # "boolean" /\ config.preferredSummarizer # "none"

\* C30: the callSummarizer calls of a session handed to summarizeSessionWithLlm:
\* exactly one, with the whole digest, when the digest is no longer than the chunk
\* threshold or the threshold is 0 or negative; otherwise exactly k + 1, k <= 12
\* being the number of chunks: the k chunk calls in chunk order, then one
\* synthesis call if some chunk call returned a summary, or one whole-digest call
\* if none did. The calls of a session come after all calls of the sessions
\* before it have returned.
C30_CallsPerSession ==
    /\ ClaimUsesLlm =>
          \A sid \in DOMAIN summaries :
             LET all == ClaimCallsOf(sid, {<<"c">>, <<"y">>, <<"w">>})
                 k == Len(ClaimChunksOf(sid))
             IN  IF ClaimThreshold <= 0 \/ Len(ClaimDigestText(sid)) <= ClaimThreshold
                 THEN Len(all) = 1 /\ all[1].kind = <<"w">>
                 ELSE /\ k <= MAX_SUMMARY_CHUNKS
                      /\ Len(all) = k + 1
                      /\ \A i \in 1..k : all[i].kind = <<"c">> /\ all[i].chunkIndex = i
                      /\ all[k + 1].kind = IF \E i \in 1..k : Truthy(all[i].result)
                                           THEN <<"y">> ELSE <<"w">>
    /\ \A i, j \in 1..Len(callLog) :
          i < j => ClaimPlace(callLog[i].session) <= ClaimPlace(callLog[j].session)
    /\ call.phase # "none" =>
          /\ \A i \in 1..Len(callLog) : ClaimPlace(callLog[i].session) <= run.index
          /\ \A i \in 1..(run.index - 1) : contexts[i].session.id \in DOMAIN summaries

\* a run is over in which the first session was summarized by one request and the
\* second by three chunk requests and a synthesis request
C30_Witness ==
    /\ run.pc = "done"
    /\ Len(contexts) = 2
    /\ Len(callLog) = 5
    /\ \A i \in 1..5 : callLog[i].external
    /\ callLog[1].session = contexts[1].session.id
    /\ [i \in 2..5 |-> callLog[i].session] = [i \in 2..5 |-> contexts[2].session.id]
    /\ callLog[5].kind = <<"y">>

----------------------------------------------------------------------------
(* Claims about sumTokens, checked under SpecSum *)

\* the sum of one field over the operands
ClaimFieldSum(usages, f) ==
    LET RECURSIVE upTo(_)
        upTo(n) == IF n = 0 THEN 0 ELSE upTo(n - 1) + usages[n][f]
    IN  upTo(Len(usages))
\* the total of a usage is the sum of its five buckets
ClaimConsistent(usage) ==
    usage.total = usage.input + usage.output + usage.reasoning + usage.cacheRead
                    + usage.cacheWrite

\* C26: sumTokens is the pointwise sum over all six fields, total included. It
\* gives the same usage for the operands in any order and summed in any two
\* groups; with no operands it gives the all-zero usage; operands that are the
\* all-zero usage change nothing; and when the total of every operand is the sum
\* of its five buckets, so is the total of the result.
C26_SumTokensPointwise ==
    /\ tally.pc \in {"summed", "reordered", "grouped"} =>
          /\ \A f \in Buckets \cup {"total"} :
                tally.combined[f] = ClaimFieldSum(tally.usages, f)
          /\ tally.usages = <<>> => tally.combined = emptyTokenUsage
          /\ tally.combined
               = sumTokens(SelectSeq(tally.usages, LAMBDA u : u # emptyTokenUsage))
          /\ (\A i \in DOMAIN tally.usages : ClaimConsistent(tally.usages[i]))
                => ClaimConsistent(tally.combined)
    /\ tally.pc \in {"reordered", "grouped"} => tally.reordered = tally.combined
    /\ tally.pc = "grouped" => tally.grouped = tally.combined

\* the operands of the test were summed with the empty usage, in the order of the
\* test and in another, and in two groups
C26_Witness ==
    /\ tally.pc = "grouped"
    /\ Len(tally.usages) = 3
    /\ tally.usages[3] = emptyTokenUsage
    /\ tally.combined = [input |-> 14, output |-> 26, reasoning |-> 6, cacheRead |-> 4,
                         cacheWrite |-> 2, total |-> 52]
    /\ tally.order = <<3, 1, 2>>
    /\ tally.cut = 1

----------------------------------------------------------------------------
(* Claims about the collection of sessions, checked under SpecCollect *)

\* the order in which the sources are registered
ClaimRegistration == <<"opencode", "claude-code", "cursor", "codex", "copilot">>
ClaimRank(name) == CHOOSE i \in 1..Len(ClaimRegistration) : ClaimRegistration[i] = name
\* the logged event is the return of isAvailable of the parser with the given answer
ClaimAnswered(event, name, available) ==
    /\ event.method = "isAvailable"
    /\ event.phase = "return"
    /\ event.parser = name
    /\ event.value = available

\* C27: the command collects sessions in the order opencode, claude-code, cursor,
\* codex, copilot: the sessions of an earlier source come before those of a later
\* one in allSessions; the parsers are asked one at a time, in that order, every
\* call having returned before the next is made; and getSessions is called of a
\* parser only right after its isAvailable has returned true.
C27_CollectedInRegistrationOrder ==
    collect.pc # "idle" =>
       LET log == collect.calls
       IN  /\ \A i, j \in 1..Len(collect.allSessions) :
                 i < j => ClaimRank(collect.allSessions[i].tool)
                             <= ClaimRank(collect.allSessions[j].tool)
           /\ \A i \in 1..Len(log) :
                 /\ (log[i].phase = "call" /\ i < Len(log)) =>
                        /\ log[i + 1].phase = "return"
                        /\ log[i + 1].method = log[i].method
                        /\ log[i + 1].parser = log[i].parser
                 /\ (log[i].phase = "return" /\ i < Len(log)) => log[i + 1].phase = "call"
                 /\ (log[i].method = "getSessions" /\ log[i].phase = "call") =>
                        /\ i > 1
                        /\ ClaimAnswered(log[i - 1], log[i].parser, TRUE)
                 /\ \A j \in 1..Len(log) :
                       (i < j /\ log[i].phase = "call" /\ log[j].phase = "call") =>
                          \/ ClaimRank(log[i].parser) < ClaimRank(log[j].parser)
                          \/ /\ log[i].parser = log[j].parser
                             /\ log[i].method = "isAvailable"
                             /\ log[j].method = "getSessions"

\* the loop is over: a parser was skipped as unavailable, and the sessions of two
\* parsers on either side of it were collected
C27_Witness ==
    /\ collect.pc = "collected"
    /\ Len(collect.allSessions) = 2
    /\ collect.allSessions[1].tool = "claude-code"
    /\ collect.allSessions[2].tool = "copilot"
    /\ \E i \in 1..Len(collect.calls) :
          ClaimAnswered(collect.calls[i], "codex", FALSE)

====
